---- MODULE Spec2Model ----
(***************************************************************************)
(* CaLab deconvolution engine: FISTA solver (step_batch), the bounded      *)
(* solve drivers and the InDeCa pipeline (solve_trace).                    *)
(*                                                                         *)
(* Samples are fixed-point numbers: the integer v stands for v / One.      *)
(* Every product or quotient is rounded to the nearest representable       *)
(* value, as single precision rounds each operation.                       *)
(***************************************************************************)
EXTENDS Integers, Sequences, FiniteSets, TLC

VARIABLES solver, twin, call, drv, pipe

vars == <<solver, twin, call, drv, pipe>>

-----------------------------------------------------------------------------
(* Bounds of the model *)

MaxLen == 3
MaxSteps == 2
MaxIter == 9

-----------------------------------------------------------------------------
(* Fixed-point arithmetic *)

One == 64

\* nearest integer to a / b (b > 0), halves rounded up
Rnd(a, b) == (2 * a + b) \div (2 * b)

MulFx(a, b) == Rnd(a * b, One)

DivFx(a, b) == Rnd(a * One, b)

Max(a, b) == IF a >= b THEN a ELSE b

Min(a, b) == IF a <= b THEN a ELSE b

Abs(a) == IF a >= 0 THEN a ELSE 0 - a

Clamp(z, lo, hi) == IF z < lo THEN lo ELSE IF z > hi THEN hi ELSE z

\* floor of the square root, by bisection on [lo, hi)
RECURSIVE SqrtBis(_, _, _)
SqrtBis(x, lo, hi) ==
    IF hi - lo <= 1 THEN lo
    ELSE LET mid == (lo + hi) \div 2
         IN IF mid * mid <= x THEN SqrtBis(x, mid, hi) ELSE SqrtBis(x, lo, mid)

ISqrt(x) == SqrtBis(x, 0, 46341)

RECURSIVE SumSeq(_)
SumSeq(s) == IF s = <<>> THEN 0 ELSE Head(s) + SumSeq(Tail(s))

Zeros(n) == [i \in 1..n |-> 0]

-----------------------------------------------------------------------------
(* AR(2) coefficients and the banded operator (banded.rs) *)

RECURSIVE PowInt(_, _)
PowInt(b, e) == IF e = 0 THEN 1 ELSE b * PowInt(b, e - 1)

\* exp(-dt/tau) at rate fs * u, given its value q / One at rate fs:
\* the u-th root of q / One
RateRoot(q, u) ==
    CHOOSE x \in 0..One :
        /\ PowInt(x, u) <= q * PowInt(One, u - 1)
        /\ PowInt(x + 1, u) > q * PowInt(One, u - 1)

\* exp(-dt/tau_decay) = 1/2 and exp(-dt/tau_rise) = 1/4 at the base rate
DecayBase == One \div 2

RiseBase == One \div 4

\* tau_decay * fs at the base rate is 1 / ln 2 = 1.4427
TauDFsNum == 14427

TauDFsDen == 10000

CeilDiv(a, b) == (a + b - 1) \div b

compute_impulse_peak(g1, g2, u) ==
    LET RECURSIVE Loop(_, _, _, _)
        \* the for loop with left steps to go
        Loop(c_prev2, c_prev1, peak, left) ==
            IF left = 0 THEN peak
            ELSE LET c == MulFx(g1, c_prev1) + MulFx(g2, c_prev2)
                     pk == IF c > peak THEN c ELSE peak
                 IN IF 100 * c < 95 * pk THEN pk
                    ELSE Loop(c_prev1, c, pk, left - 1)
    IN Max(Loop(0, One, One, CeilDiv(5 * TauDFsNum * u, TauDFsDen) + 10 - 1), One)

\* |H|^2 on the grid points w = 0, pi/2, pi of the 4097-point grid, where
\* cos and sin are exact; for two real positive roots the maximum is at w = 0
compute_banded_lipschitz(g1, g2) ==
    LET Pow(cw, sw) ==
            LET c2w == 2 * cw * cw - 1
                s2w == 2 * sw * cw
                re == One - g1 * cw - g2 * c2w
                im == g1 * sw + g2 * s2w
                denom_sq == MulFx(re, re) + MulFx(im, im)
            IN IF denom_sq > 0 THEN DivFx(One, denom_sq) ELSE 0
    IN Max(Max(Max(Pow(1, 0), Pow(0, 1)), Pow(-1, 0)), 1)

\* the coefficients, then the peak, then the normalised Lipschitz constant
BandedAR2_new(u) ==
    LET WithPeak(g1, g2, peak) ==
            [g1 |-> g1, g2 |-> g2, impulse_peak |-> peak,
             lipschitz |-> DivFx(compute_banded_lipschitz(g1, g2), MulFx(peak, peak))]
        FromRoots(d, r) ==
            WithPeak(d + r, 0 - MulFx(d, r),
                     compute_impulse_peak(d + r, 0 - MulFx(d, r), u))
    IN FromRoots(RateRoot(DecayBase, u), RateRoot(RiseBase, u))

\* the causal recursion c[t] = g1 c[t-1] + g2 c[t-2] + s[t], scaled by 1 / peak
banded_convolve_forward(b, source) ==
    LET RECURSIVE Run(_)
        \* acc holds c[1 .. t - 1]
        Run(acc) ==
            IF Len(acc) = Len(source) THEN acc
            ELSE LET t == Len(acc) + 1
                     c == IF t = 1 THEN source[1]
                          ELSE IF t = 2 THEN MulFx(b.g1, acc[1]) + source[2]
                          ELSE MulFx(b.g1, acc[t - 1]) + MulFx(b.g2, acc[t - 2])
                               + source[t]
                 IN Run(Append(acc, c))
        Scale(raw) == [t \in 1..Len(raw) |-> MulFx(raw[t], DivFx(One, b.impulse_peak))]
    IN Scale(Run(<<>>))

\* the causal recursion applied where its transpose is wanted
banded_convolve_adjoint_causal(b, source) == banded_convolve_forward(b, source)

\* the anti-causal recursion from the last sample back, scaled by 1 / peak
banded_convolve_adjoint(b, source) ==
    LET RECURSIVE Run(_)
        \* acc holds c[t + 1 .. n]
        Run(acc) ==
            IF Len(acc) = Len(source) THEN acc
            ELSE LET t == Len(source) - Len(acc)
                     c == IF Len(acc) = 0 THEN source[t]
                          ELSE IF Len(acc) = 1 THEN source[t] + MulFx(b.g1, acc[1])
                          ELSE source[t] + MulFx(b.g1, acc[1]) + MulFx(b.g2, acc[2])
                 IN Run(<<c>> \o acc)
        Scale(raw) == [t \in 1..Len(raw) |-> MulFx(raw[t], DivFx(One, b.impulse_peak))]
    IN Scale(Run(<<>>))

-----------------------------------------------------------------------------
(* Bi-exponential kernel and the frequency-domain operator *)

\* K = ceil(5 * tau_d * fs)
KernelLen(u) == CeilDiv(5 * TauDFsNum * u, TauDFsDen)

\* h[k] = exp(-k dt / tau_d) - exp(-k dt / tau_r), k = 0 .. K - 1 (h[k + 1] here)
build_kernel(u) ==
    LET RECURSIVE Taps(_, _, _, _, _)
        Taps(d, r, pd, pr, left) ==
            IF left = 0 THEN <<>>
            ELSE <<pd - pr>> \o Taps(d, r, MulFx(d, pd), MulFx(r, pr), left - 1)
    IN Taps(RateRoot(DecayBase, u), RateRoot(RiseBase, u), One, One, KernelLen(u))

\* max |H(w)|^2 at the grid points w = 0, pi/2, pi, clamped to a positive floor
compute_lipschitz(h) ==
    LET Cos4(k) == CASE k % 4 = 0 -> 1 [] k % 4 = 2 -> -1 [] OTHER -> 0
        Sin4(k) == CASE k % 4 = 1 -> 1 [] k % 4 = 3 -> -1 [] OTHER -> 0
        PowerOf(re, im) == MulFx(re, re) + MulFx(im, im)
    IN Max(Max(Max(PowerOf(SumSeq(h), 0),
                   PowerOf(SumSeq([k \in 1..Len(h) |-> Cos4(2 * (k - 1)) * h[k]]), 0)),
               PowerOf(SumSeq([k \in 1..Len(h) |-> Cos4(k - 1) * h[k]]),
                       SumSeq([k \in 1..Len(h) |-> Sin4(k - 1) * h[k]]))), 1)

\* y[t] = sum_k h[k] x[t - k], zero outside [0, T)
fft_convolve_forward(h, x) ==
    LET n == Len(x)
    IN [t \in 1..n |->
          SumSeq([k \in 1..Min(t, Len(h)) |-> MulFx(h[k], x[t - k + 1])])]

\* (H^T r)[t] = sum_k h[k] r[t + k]
fft_convolve_adjoint(h, r) ==
    LET n == Len(r)
    IN [t \in 1..n |->
          SumSeq([k \in 1..Min(n - t + 1, Len(h)) |-> MulFx(h[k], r[t + k - 1])])]

-----------------------------------------------------------------------------
(* Solver state *)

ConvModes == {"Fft", "BandedAR2"}

Constraints == {"NonNegative", "Box01"}

\* tolerance is kept in units of 1 / TolOne
TolOne == 16

Solver_new ==
    [ trace |-> <<>>, active_len |-> 0,
      solution |-> <<>>, solution_prev |-> <<>>,
      reconvolution |-> <<>>, residual_buf |-> <<>>, gradient |-> <<>>,
      iteration |-> 0, t_fista |-> One, converged |-> FALSE,
      baseline |-> 0, baseline_ema |-> 0, baseline_ema_init |-> FALSE,
      reconvolution_stale |-> FALSE, filtered |-> FALSE,
      conv_mode |-> "Fft", constraint |-> "NonNegative",
      lambda |-> 0, tolerance |-> 1, up |-> 1,
      kernel |-> build_kernel(1), banded |-> BandedAR2_new(1) ]

\* set_params(tau_r, tau_d, lambda, fs * u): rebuilds the coefficients and
\* invalidates the momentum (t <- 1, y_ext <- x)
set_params(s, lambda, u) ==
    [s EXCEPT !.lambda = lambda, !.up = u, !.kernel = build_kernel(u),
              !.banded = BandedAR2_new(u),
              !.t_fista = One, !.solution_prev = s.solution]

set_conv_mode(s, m) == [s EXCEPT !.conv_mode = m]

set_constraint(s, c) == [s EXCEPT !.constraint = c]

\* set_trace resizes the buffers and zeros all state; the scratch buffers
\* keep whatever an earlier run left in them (a ramp of slope scratch)
set_trace_with(s, tr, scratch) ==
    [s EXCEPT !.trace = tr, !.active_len = Len(tr),
              !.solution = Zeros(Len(tr)), !.solution_prev = Zeros(Len(tr)),
              !.reconvolution = [i \in 1..Len(tr) |-> scratch * i],
              !.residual_buf = [i \in 1..Len(tr) |-> scratch * i],
              !.gradient = [i \in 1..Len(tr) |-> scratch * i],
              !.iteration = 0, !.t_fista = One, !.converged = FALSE,
              !.baseline = 0, !.baseline_ema = 0, !.baseline_ema_init = FALSE,
              !.reconvolution_stale = FALSE, !.filtered = FALSE]

set_trace(s, tr) == set_trace_with(s, tr, 0)

lipschitz_constant(s) ==
    IF s.conv_mode = "Fft" THEN compute_lipschitz(s.kernel) ELSE s.banded.lipschitz

effective_lambda(s) == s.lambda

-----------------------------------------------------------------------------
(* Solver::step_batch (fista.rs) *)

convolve_forward(s, x) ==
    IF s.conv_mode = "Fft" THEN fft_convolve_forward(s.kernel, x)
    ELSE banded_convolve_forward(s.banded, x)

convolve_adjoint(s, r) ==
    IF s.conv_mode = "Fft" THEN fft_convolve_adjoint(s.kernel, r)
    ELSE banded_convolve_adjoint(s.banded, r)

\* proximal step on one sample: prox(y - step * g)
Prox(c, y, g, step, thresh) ==
    LET z == y - MulFx(step, g)
    IN IF c = "NonNegative" THEN Max(z - thresh, 0) ELSE Clamp(z, 0, One)

\* Extrapolate without the constraint applied to the extrapolated point
Extrapolate_unconstrained(c, x_new, x_old, momentum) ==
    x_new + MulFx(momentum, x_new - x_old)

\* speculative extrapolation of one sample, with the constraint applied
Extrapolate(c, x_new, x_old, momentum) ==
    LET e == x_new + MulFx(momentum, x_new - x_old)
    IN IF c = "NonNegative" THEN Max(e, 0) ELSE Clamp(e, 0, One)

\* the restart test firing also when the inner product is zero
RestartFires_atzero(check_restart, dot) == check_restart /\ dot >= 0

\* the restart test of one iteration
RestartFires(check_restart, dot) == check_restart /\ dot > 0

\* the convergence test admitted one iteration early
ConvergenceTest_early(iteration, diff_sq, xk_sq, tol) ==
    /\ iteration > 4
    /\ diff_sq * TolOne * TolOne < tol * tol * xk_sq + (IF tol > 0 THEN 1 ELSE 0)

\* the convergence test of one iteration (eps keeps the right side positive)
ConvergenceTest(iteration, diff_sq, xk_sq, tol) ==
    /\ iteration > 5
    /\ diff_sq * TolOne * TolOne < tol * tol * xk_sq + (IF tol > 0 THEN 1 ELSE 0)

\* BaselineUpdate with the filtered flag ignored
BaselineUpdate_unconditional(s, reconv) ==
    LET raw == Rnd(SumSeq([i \in 1..s.active_len |-> s.trace[i] - reconv[i]]),
                   s.active_len)
    IN [b |-> raw,
        ema |-> IF ~s.baseline_ema_init THEN raw
                ELSE Rnd(3 * raw + 7 * s.baseline_ema, 10),
        init |-> TRUE]

\* baseline and EMA update of one iteration (step 1b)
BaselineUpdate(s, reconv) ==
    LET Ema(raw) ==
            [b |-> raw,
             ema |-> IF ~s.baseline_ema_init THEN raw
                     ELSE Rnd(3 * raw + 7 * s.baseline_ema, 10),
             init |-> TRUE]
    IN IF s.filtered
       THEN [b |-> s.baseline, ema |-> s.baseline_ema, init |-> s.baseline_ema_init]
       ELSE Ema(Rnd(SumSeq([i \in 1..s.active_len |-> s.trace[i] - reconv[i]]),
                    s.active_len))

\* forward convolution skipped while the reconvolution buffer is not stale
ForwardAt_cached(s) ==
    IF s.reconvolution_stale THEN convolve_forward(s, s.solution_prev)
    ELSE s.reconvolution

\* step 1: reconvolution = K * y_k, written before it is read
ForwardAt(s) == convolve_forward(s, s.solution_prev)

\* the body of the for loop: one FISTA iteration on a non-empty trace
FistaIteration(s) ==
    LET n == s.active_len
        x_old == s.solution
        iteration == s.iteration + 1
        \* steps 3b-8: momentum, extrapolation, restart, convergence, bookkeeping
        Finish(reconv, bl, grad, x_new, t_new, diff_sq, dot) ==
            [s EXCEPT !.reconvolution = reconv,
                      !.baseline = bl.b, !.baseline_ema = bl.ema,
                      !.baseline_ema_init = bl.init,
                      !.gradient = grad,
                      !.residual_buf = x_old,
                      !.solution = x_new,
                      !.iteration = iteration,
                      !.t_fista = IF RestartFires(iteration > 1, dot) THEN One ELSE t_new,
                      !.solution_prev =
                          IF RestartFires(iteration > 1, dot) THEN x_new
                          ELSE [i \in 1..n |->
                                  Extrapolate(s.constraint, x_new[i], x_old[i],
                                              DivFx(s.t_fista - One, t_new))],
                      !.converged =
                          s.converged
                          \/ ConvergenceTest(iteration, diff_sq,
                                             SumSeq([i \in 1..n |-> x_old[i] * x_old[i]]),
                                             s.tolerance),
                      !.reconvolution_stale = TRUE]
        \* the sums of the fused loop over the new iterate
        Fused(reconv, bl, grad, x_new) ==
            Finish(reconv, bl, grad, x_new,
                   (One + ISqrt(One * One + 4 * s.t_fista * s.t_fista)) \div 2,
                   SumSeq([i \in 1..n |-> (x_new[i] - x_old[i]) * (x_new[i] - x_old[i])]),
                   SumSeq([i \in 1..n |->
                             (s.solution_prev[i] - x_new[i]) * (x_new[i] - x_old[i])]))
        \* step 3: gradient step and proximal operator
        ProxStep(reconv, bl, grad, step_size) ==
            Fused(reconv, bl, grad,
                  [i \in 1..n |->
                     Prox(s.constraint, s.solution_prev[i], grad[i], step_size,
                          MulFx(step_size, effective_lambda(s)))])
        \* step 2: residual and adjoint convolution
        Gradient(reconv, bl) ==
            ProxStep(reconv, bl,
                     convolve_adjoint(s, [i \in 1..n |-> reconv[i] + bl.b - s.trace[i]]),
                     DivFx(One, lipschitz_constant(s)))
        \* step 1b: baseline
        Baseline(reconv) == Gradient(reconv, BaselineUpdate(s, reconv))
    IN Baseline(ForwardAt(s))

\* BatchLoop over 0..=n_steps: one iteration too many
RECURSIVE BatchLoop_inclusive(_, _)
BatchLoop_inclusive(s, k) ==
    LET Returning(r) == [s |-> r, ret |-> r.converged]
    IN IF s.converged THEN [s |-> s, ret |-> TRUE]
       ELSE IF k = 0 THEN Returning(FistaIteration(s))
       ELSE BatchLoop_inclusive(FistaIteration(s), k - 1)

\* BatchLoop without the early return at the head of the loop body
RECURSIVE BatchLoop_noreturn(_, _)
BatchLoop_noreturn(s, k) ==
    IF k = 0 THEN [s |-> s, ret |-> s.converged]
    ELSE BatchLoop_noreturn(FistaIteration(s), k - 1)

\* the for loop over 0..n_steps, with its early return
RECURSIVE BatchLoop(_, _)
BatchLoop(s, k) ==
    IF k = 0 THEN [s |-> s, ret |-> s.converged]
    ELSE IF s.converged THEN [s |-> s, ret |-> TRUE]
    ELSE BatchLoop(FistaIteration(s), k - 1)

\* the zero-length guard at the head of step_batch
EmptyGuard(s) == s.active_len = 0

\* step_batch whose zero-length guard returns without setting the flag
step_batch_noflag(s, n_steps) ==
    IF EmptyGuard(s) THEN [s |-> s, ret |-> TRUE]
    ELSE BatchLoop(s, n_steps)

\* step_batch that starts every call with the momentum reset
step_batch_restarting(s, n_steps) ==
    IF EmptyGuard(s) THEN [s |-> [s EXCEPT !.converged = TRUE], ret |-> TRUE]
    ELSE BatchLoop([s EXCEPT !.t_fista = One], n_steps)

step_batch(s, n_steps) ==
    IF EmptyGuard(s) THEN [s |-> [s EXCEPT !.converged = TRUE], ret |-> TRUE]
    ELSE BatchLoop(s, n_steps)

-----------------------------------------------------------------------------
(* Inputs of the model *)

Lambdas == {0, One \div 4}

Tolerances == {0, 1, TolOne \div 4}

TraceVals == {0 - One, 0, 2 * One}

WarmVals == {2 * One}

RECURSIVE SeqsOfLen(_, _)
SeqsOfLen(S, n) ==
    IF n = 0 THEN {<<>>}
    ELSE {Append(q, v) : q \in SeqsOfLen(S, n - 1), v \in S}

Traces == UNION {SeqsOfLen(TraceVals, n) : n \in 0..MaxLen}

NoCall == [op |-> "none", n |-> 0, ret |-> FALSE]

NoDrv == [pc |-> "off", api |-> "none", max_iters |-> 0, iterations |-> 0,
          converged |-> FALSE]

NoPipe == [pc |-> "off"]

-----------------------------------------------------------------------------
(* The solver driven by a host: setters, set_trace, warm start, step_batch *)

Init ==
    /\ solver = Solver_new
    /\ twin = Solver_new
    /\ call = NoCall
    /\ drv = NoDrv
    /\ pipe = NoPipe

Fresh(s) == s.iteration = 0 /\ ~s.converged

\* the host configures a solver before it loads a trace
Unloaded(s) == Fresh(s) /\ s.active_len = 0

SetParams ==
    /\ Unloaded(solver)
    /\ \E l \in Lambdas :
          /\ l # solver.lambda
          /\ solver' = set_params(solver, l, 1)
    /\ call' = [op |-> "set_params", n |-> 0, ret |-> FALSE]
    /\ UNCHANGED <<twin, drv, pipe>>

SetConvMode ==
    /\ Unloaded(solver)
    /\ \E m \in ConvModes :
          /\ m # solver.conv_mode
          /\ solver' = set_conv_mode(solver, m)
    /\ call' = [op |-> "set_conv_mode", n |-> 0, ret |-> FALSE]
    /\ UNCHANGED <<twin, drv, pipe>>

SetConstraint ==
    /\ Unloaded(solver)
    /\ \E c \in Constraints :
          /\ c # solver.constraint
          /\ solver' = set_constraint(solver, c)
    /\ call' = [op |-> "set_constraint", n |-> 0, ret |-> FALSE]
    /\ UNCHANGED <<twin, drv, pipe>>

SetTolerance ==
    /\ Unloaded(solver)
    /\ \E tol \in Tolerances :
          /\ tol # solver.tolerance
          /\ solver' = [solver EXCEPT !.tolerance = tol]
    /\ call' = [op |-> "set_tolerance", n |-> 0, ret |-> FALSE]
    /\ UNCHANGED <<twin, drv, pipe>>

\* a host loads a trace into a new solver, or into one whose run has ended
SetTrace ==
    /\ solver.active_len = 0 \/ solver.converged \/ solver.iteration >= MaxIter
    /\ \E tr \in Traces : solver' = set_trace(solver, tr)
    /\ call' = [op |-> "set_trace", n |-> 0, ret |-> FALSE]
    /\ UNCHANGED <<twin, drv, pipe>>

\* the state solve_upsampled configures: lambda = 0, BandedAR2
UpsampledSetup(s) == Fresh(s) /\ s.lambda = 0 /\ s.conv_mode = "BandedAR2"

\* solve_upsampled, baseline_subtracted = true: solver.filtered = true
MarkBaselineSubtracted ==
    /\ UpsampledSetup(solver)
    /\ solver.active_len > 0
    /\ ~solver.filtered
    /\ solver' = [solver EXCEPT !.filtered = TRUE]
    /\ call' = [op |-> "mark_filtered", n |-> 0, ret |-> FALSE]
    /\ UNCHANGED <<twin, drv, pipe>>

\* warm start: solution and solution_prev both preloaded with warm
warm_start(s, warm) ==
    IF Len(warm) = s.active_len
    THEN [s EXCEPT !.solution = warm, !.solution_prev = warm]
    ELSE s

WarmStart ==
    /\ UpsampledSetup(solver)
    /\ solver.active_len > 0
    /\ solver.solution = Zeros(solver.active_len)
    /\ \E w \in WarmVals :
          solver' = warm_start(solver, [i \in 1..solver.active_len |-> w])
    /\ call' = [op |-> "warm_start", n |-> 0, ret |-> FALSE]
    /\ UNCHANGED <<twin, drv, pipe>>

StepBatch ==
    /\ \E n \in 0..MaxSteps :
          /\ solver.iteration + n <= MaxIter
          /\ \E r \in {step_batch(solver, n)} :
                /\ solver' = r.s
                /\ call' = [op |-> "step_batch", n |-> n, ret |-> r.ret,
                            was_converged |-> solver.converged]
    /\ UNCHANGED <<twin, drv, pipe>>

Next ==
    \/ SetParams
    \/ SetConvMode
    \/ SetConstraint
    \/ SetTolerance
    \/ SetTrace
    \/ MarkBaselineSubtracted
    \/ WarmStart
    \/ StepBatch

Spec == Init /\ [][Next]_vars

-----------------------------------------------------------------------------
(* Properties of step_batch *)

InConstraint(c, v) == IF c = "NonNegative" THEN v >= 0 ELSE v >= 0 /\ v <= One

\* C1: after every completed FISTA iteration the solution x and the
\* extrapolated point y_ext (solution_prev) satisfy the active constraint:
\* every sample >= 0 under NonNegative, in [0, 1] under Box01, also on
\* iterations where the adaptive restart fires.
C1_ConstraintHolds ==
    solver.iteration >= 1 =>
        \A i \in 1..solver.active_len :
            /\ InConstraint(solver.constraint, solver.solution[i])
            /\ InConstraint(solver.constraint, solver.solution_prev[i])

\* an iteration >= 2 on which the restart fired (t back at 1), under Box01,
\* with a sample sitting on the upper bound
C1_Witness ==
    /\ solver.iteration >= 2
    /\ solver.t_fista = One
    /\ solver.constraint = "Box01"
    /\ \E i \in 1..solver.active_len : solver.solution[i] = One

\* C2: on a zero-length trace step_batch(n), for any n, sets converged,
\* returns true and runs no iteration: counter, momentum and buffers keep
\* their values.
C2_EmptyTraceReturns ==
    [][(call'.op = "step_batch" /\ solver.active_len = 0) =>
          /\ solver' = [solver EXCEPT !.converged = TRUE]
          /\ solver'.converged
          /\ call'.ret]_vars

C2_Witness ==
    /\ call.op = "step_batch"
    /\ call.n > 0
    /\ solver.active_len = 0
    /\ solver.converged
    /\ solver.iteration = 0

\* C3: step_batch(n) runs at most n iterations: the counter grows by some
\* k in 0..n (so it never decreases), and the value returned is the
\* converged flag after the call.
C3_AtMostNIterations ==
    [][call'.op = "step_batch" =>
          /\ solver'.iteration - solver.iteration \in 0..call'.n
          /\ call'.ret = solver'.converged]_vars

\* a batch that ran its iterations without meeting the convergence test
C3_Witness ==
    /\ call.op = "step_batch"
    /\ call.n = MaxSteps
    /\ ~call.ret
    /\ ~solver.converged
    /\ solver.iteration >= MaxSteps
    /\ solver.tolerance > 0

-----------------------------------------------------------------------------
(* Bounded solves: solve_upsampled / solve_bounded (indeca.rs) and
   run_to_convergence / PySolver.solve / deconvolve_single (py_api.rs) *)

\* batch size of solve_upsampled
batch_size == 50

\* batch size of run_to_convergence
BATCH_SIZE == 100

\* high-pass: removes the mean; low-pass: two-tap causal average
hp_filter(x) ==
    LET n == Len(x) IN [i \in 1..n |-> x[i] - Rnd(SumSeq(x), n)]

lp_filter(x) ==
    [i \in 1..Len(x) |-> IF i = 1 THEN x[1] ELSE Rnd(x[i] + x[i - 1], 2)]

\* apply_filter on the loaded trace; marks the solver as filtered
apply_filter(s, hp, lp) ==
    IF s.active_len = 0 \/ ~(hp \/ lp) THEN s
    ELSE [s EXCEPT !.trace = IF lp
                             THEN lp_filter(IF hp THEN hp_filter(s.trace) ELSE s.trace)
                             ELSE hp_filter(s.trace),
                   !.filtered = TRUE]

\* warm is <<>> for None and <<w>> for Some(w); the result is
\* (solution, filtered_trace, iterations, converged) with the solver it leaves
solve_upsampled(s0, upsampled, u, max_iters, tol, warm, hp, lp, constraint, baseline_subtracted) ==
    LET RECURSIVE Batches(_, _)
        \* after one step_batch with result r
        AfterBatch(r, left) ==
            IF r.ret THEN r.s
            ELSE IF r.s.iteration >= max_iters THEN r.s
            ELSE Batches(r.s, left - 1)
        \* for _ in 0..max_batches
        Batches(s, left) ==
            IF left = 0 THEN s ELSE AfterBatch(step_batch(s, batch_size), left)
        Warm(s) ==
            [(IF warm # <<>> THEN warm_start(s, warm[1]) ELSE s) EXCEPT !.tolerance = tol]
        Marked(s) == IF baseline_subtracted THEN [s EXCEPT !.filtered = TRUE] ELSE s
        Filter(s) == IF hp \/ lp THEN apply_filter(Marked(s), hp, lp) ELSE Marked(s)
        \* start is the solver as the first step_batch finds it
        Result(start, s) ==
            [s |-> s, solution |-> s.solution,
             filtered |-> IF hp \/ lp THEN <<s.trace>> ELSE <<>>,
             iterations |-> s.iteration, converged |-> s.converged,
             start |-> [solution |-> start.solution,
                        solution_prev |-> start.solution_prev,
                        iteration |-> start.iteration]]
        Run(start) == Result(start, Batches(start, CeilDiv(max_iters, batch_size)))
    IN Run(Warm(Filter(set_trace(set_constraint(set_conv_mode(set_params(s0, 0, u),
                                                              "BandedAR2"),
                                                constraint), upsampled))))

run_to_convergence(s, max_iters) ==
    LET RECURSIVE Batches(_, _)
        AfterBatch(r, left) == IF r.ret THEN r.s ELSE Batches(r.s, left - 1)
        \* for _ in 0..n_batches
        Batches(x, left) ==
            IF left = 0 THEN x ELSE AfterBatch(step_batch(x, BATCH_SIZE), left)
    IN Batches(s, CeilDiv(max_iters, BATCH_SIZE))

\* iteration limits handed to the drivers
MaxItersVals == {0, 1, batch_size, batch_size + 1}

DrvIdle == [pc |-> "idle", api |-> "none", max_iters |-> 0, iterations |-> 0,
            converged |-> FALSE]

InitDrive ==
    /\ solver = Solver_new
    /\ twin = Solver_new
    /\ call = NoCall
    /\ drv = DrvIdle
    /\ pipe = NoPipe

\* solve_bounded: a new solver, Box01, no baseline subtraction
DrvSolveBounded ==
    /\ drv.pc = "idle"
    /\ \E tr \in Traces, mi \in MaxItersVals, tol \in {0, 1}, w \in {0} \cup WarmVals :
          \E r \in {solve_upsampled(Solver_new, tr, 1, mi, tol,
                                     IF w = 0 THEN <<>>
                                     ELSE <<[i \in 1..Len(tr) |-> w]>>,
                                     FALSE, FALSE, "Box01", FALSE)} :
             /\ solver' = r.s
             /\ drv' = [pc |-> "done", api |-> "solve_bounded", max_iters |-> mi,
                        iterations |-> r.iterations, converged |-> r.converged]
    /\ call' = NoCall
    /\ UNCHANGED <<twin, pipe>>

\* PySolver.set_trace
DrvSetTrace ==
    /\ drv.pc = "idle"
    /\ \E tr \in Traces : solver' = set_trace(solver, tr)
    /\ drv' = [DrvIdle EXCEPT !.pc = "loaded", !.api = "PySolver"]
    /\ call' = NoCall
    /\ UNCHANGED <<twin, pipe>>

\* PySolver.solve right after set_trace
DrvPySolve ==
    /\ drv.pc = "loaded"
    /\ \E mi \in MaxItersVals :
          \E r \in {run_to_convergence(solver, mi)} :
             /\ solver' = r
             /\ drv' = [pc |-> "done", api |-> "PySolver.solve", max_iters |-> mi,
                        iterations |-> r.iteration, converged |-> r.converged]
    /\ call' = NoCall
    /\ UNCHANGED <<twin, pipe>>

\* deconvolve_single: new solver, set_params, options, set_trace, filter, run
DrvDeconvolveSingle ==
    /\ drv.pc = "idle"
    /\ \E tr \in Traces, mi \in MaxItersVals, m \in ConvModes, c \in Constraints :
          \E r \in {run_to_convergence(
                       set_trace(set_constraint(set_conv_mode(
                           set_params(Solver_new, One \div 4, 1), m), c), tr), mi)} :
             /\ solver' = r
             /\ drv' = [pc |-> "done", api |-> "deconvolve_single", max_iters |-> mi,
                        iterations |-> r.iteration, converged |-> r.converged]
    /\ call' = NoCall
    /\ UNCHANGED <<twin, pipe>>

\* the result is taken and the solver dropped; the next call starts anew
DrvReset ==
    /\ drv.pc = "done"
    /\ solver' = Solver_new
    /\ drv' = DrvIdle
    /\ call' = NoCall
    /\ UNCHANGED <<twin, pipe>>

NextDrive ==
    \/ DrvReset
    \/ DrvSolveBounded
    \/ DrvSetTrace
    \/ DrvPySolve
    \/ DrvDeconvolveSingle

SpecDrive == InitDrive /\ [][NextDrive]_vars

\* C4: a solve given the limit max_iters never runs more than max_iters
\* FISTA iterations on one trace, for every max_iters: the iteration count
\* reported by solve_bounded (batches of 50) and by PySolver.solve /
\* deconvolve_single (batches of 100) after a fresh set_trace is <= max_iters.
C4_NeverExceedsMaxIters ==
    drv.pc = "done" => drv.iterations <= drv.max_iters

-----------------------------------------------------------------------------
(* Two solvers given the same parameters, trace and calls *)

\* what an earlier run may have left in the scratch buffers
ScratchVals == {One, 0 - 3 * One}

InitTwin ==
    /\ solver = Solver_new
    /\ twin = Solver_new
    /\ call = NoCall
    /\ drv = NoDrv
    /\ pipe = NoPipe

TwinConfigure ==
    /\ Unloaded(solver)
    /\ \E l \in Lambdas, m \in ConvModes, c \in Constraints, tol \in Tolerances :
          LET Cfg(s) == [set_constraint(set_conv_mode(set_params(s, l, 1), m), c)
                            EXCEPT !.tolerance = tol]
          IN /\ Cfg(solver) # solver
             /\ solver' = Cfg(solver)
             /\ twin' = Cfg(twin)
    /\ call' = [op |-> "configure", n |-> 0, ret |-> FALSE]
    /\ UNCHANGED <<drv, pipe>>

\* both load the same trace; the scratch buffers of the second hold leftovers
TwinSetTrace ==
    /\ solver.active_len = 0 \/ solver.converged \/ solver.iteration >= MaxIter
    /\ \E tr \in Traces, b \in ScratchVals :
          /\ solver' = set_trace(solver, tr)
          /\ twin' = set_trace_with(twin, tr, b)
    /\ call' = [op |-> "set_trace", n |-> 0, ret |-> FALSE]
    /\ UNCHANGED <<drv, pipe>>

\* the same step_batch(n) on both
TwinStepBatch ==
    /\ \E n \in 0..MaxSteps :
          /\ solver.iteration + n <= MaxIter
          /\ \E r \in {step_batch(solver, n)}, q \in {step_batch(twin, n)} :
                /\ solver' = r.s
                /\ twin' = q.s
                /\ call' = [op |-> "step_batch", n |-> n, ret |-> r.ret = q.ret]
    /\ UNCHANGED <<drv, pipe>>

NextTwin ==
    \/ TwinConfigure
    \/ TwinSetTrace
    \/ TwinStepBatch

SpecTwin == InitTwin /\ [][NextTwin]_vars

-----------------------------------------------------------------------------
(* One solver driven by step_batch(a + b), the other by step_batch(a) and
   then step_batch(b) *)

SplitConfigure ==
    /\ Unloaded(solver)
    /\ \E l \in Lambdas, m \in ConvModes, c \in Constraints :
          LET Cfg(s) == set_constraint(set_conv_mode(set_params(s, l, 1), m), c)
          IN /\ Cfg(solver) # solver
             /\ solver' = Cfg(solver)
             /\ twin' = Cfg(twin)
    /\ call' = [op |-> "configure"]
    /\ UNCHANGED <<drv, pipe>>

SplitSetTrace ==
    /\ solver.active_len = 0 \/ solver.converged \/ solver.iteration >= MaxIter
    /\ \E tr \in Traces :
          /\ solver' = set_trace(solver, tr)
          /\ twin' = set_trace(twin, tr)
    /\ call' = [op |-> "set_trace"]
    /\ UNCHANGED <<drv, pipe>>

SplitBatch ==
    /\ \E a \in 0..MaxSteps, b \in 0..MaxSteps :
          /\ solver.iteration + a + b <= MaxIter
          /\ \E r \in {step_batch(solver, a + b)}, q1 \in {step_batch(twin, a)} :
                \E q \in {step_batch(q1.s, b)} :
                   /\ solver' = r.s
                   /\ twin' = q.s
                   /\ call' = [op |-> "split_batch", a |-> a, b |-> b,
                               ret |-> r.ret, ret_split |-> q.ret]
    /\ UNCHANGED <<drv, pipe>>

NextSplit ==
    \/ SplitConfigure
    \/ SplitSetTrace
    \/ SplitBatch

SpecSplit == InitTwin /\ [][NextSplit]_vars

-----------------------------------------------------------------------------
(* Upsampling and downsampling (upsample.rs) *)

\* linear interpolation between neighbours; the last sample is held
upsample_trace(trace, factor) ==
    IF factor <= 1 THEN trace
    ELSE [p \in 1..(Len(trace) * factor) |->
            IF (p - 1) % factor = 0 \/ (p - 1) \div factor + 1 >= Len(trace)
            THEN trace[(p - 1) \div factor + 1]
            ELSE trace[(p - 1) \div factor + 1]
                 + Rnd((trace[(p - 1) \div factor + 2] - trace[(p - 1) \div factor + 1])
                       * ((p - 1) % factor), factor)]

\* upsample_counts_to_binary without the clamp of C to the factor: the ones
\* of a bin run on into the next block
upsample_counts_to_binary_unclamped(counts, factor) ==
    IF factor <= 1
    THEN [i \in 1..Len(counts) |-> IF 2 * counts[i] > One THEN One ELSE 0]
    ELSE [p \in 1..(Len(counts) * factor) |->
            IF \E i \in 1..Len(counts) :
                  /\ (i - 1) * factor <= p - 1
                  /\ p - 1 < (i - 1) * factor + Max(Rnd(counts[i], One), 0)
            THEN One ELSE 0]

\* the first min(C, factor) bins of every block receive 1.0
upsample_counts_to_binary(counts, factor) ==
    LET \* counts[i].round() as usize: negative values saturate to 0
        RoundCount(c) == Max(Rnd(c, One), 0)
    IN IF factor <= 1
       THEN [i \in 1..Len(counts) |-> IF 2 * counts[i] > One THEN One ELSE 0]
       ELSE [p \in 1..(Len(counts) * factor) |->
               IF (p - 1) % factor
                      < Min(RoundCount(counts[(p - 1) \div factor + 1]), factor)
               THEN One ELSE 0]

\* downsample_binary that copies its input whatever the factor
downsample_binary_copy(s_bin, factor) == s_bin

\* downsample_binary that averages each bin instead of summing it
downsample_binary_average(s_bin, factor) ==
    IF factor <= 1 THEN s_bin
    ELSE [i \in 1..(Len(s_bin) \div factor) |->
            Rnd(SumSeq([j \in 1..factor |-> s_bin[(i - 1) * factor + j]]), factor)]

\* bin sums of factor consecutive samples; a trailing partial bin is dropped
downsample_binary(s_bin, factor) ==
    IF factor <= 1 THEN s_bin
    ELSE [i \in 1..(Len(s_bin) \div factor) |->
            SumSeq([j \in 1..factor |-> s_bin[(i - 1) * factor + j]])]

-----------------------------------------------------------------------------
(* Rolling-percentile baseline (baseline.rs) *)

baseline_window(u) == 5 * Max(KernelLen(u), 1)

\* sort + dedup
RECURSIVE SortedDistinct(_)
SortedDistinct(S) ==
    LET SetMin == CHOOSE x \in S : \A y \in S : x <= y
    IN IF S = {} THEN <<>> ELSE <<SetMin>> \o SortedDistinct(S \ {SetMin})

\* FenwickTree::new(size): positions 1..size, all zero
FenwickTree_new(size) == [i \in 1..size |-> 0]

\* FenwickTree::update(i, delta), i 0-indexed
Fenwick_update(tree, i, delta) ==
    LET RECURSIVE LowBit(_)
        \* lowbit(p) = p & -p
        LowBit(p) == IF p % 2 = 1 THEN 1 ELSE 2 * LowBit(p \div 2)
        RECURSIVE Add(_, _)
        \* the while loop from the 1-indexed position p
        Add(tr, p) ==
            IF p > Len(tr) THEN tr
            ELSE Add([tr EXCEPT ![p] = @ + delta], p + LowBit(p))
    IN Add(tree, i + 1)

\* FenwickTree::kth that also steps over a node whose count equals k
Fenwick_kth_atmost(tree, k) ==
    LET RECURSIVE HighBit(_)
        HighBit(n) == IF n <= 1 THEN n ELSE 2 * HighBit(n \div 2)
        RECURSIVE Descend(_, _, _)
        Descend(pos, bit, left) ==
            IF bit = 0 THEN Min(pos, Len(tree) - 1)
            ELSE IF pos + bit <= Len(tree) /\ tree[pos + bit] <= left
            THEN Descend(pos + bit, bit \div 2, left - tree[pos + bit])
            ELSE Descend(pos, bit \div 2, left)
    IN Descend(0, HighBit(Len(tree)), k)

\* FenwickTree::kth(k): 0-indexed coordinate of the k-th element (k from 1)
Fenwick_kth(tree, k) ==
    LET RECURSIVE HighBit(_)
        \* the highest power of two <= n (0 for n = 0)
        HighBit(n) == IF n <= 1 THEN n ELSE 2 * HighBit(n \div 2)
        RECURSIVE Descend(_, _, _)
        \* the binary lifting loop
        Descend(pos, bit, left) ==
            IF bit = 0 THEN pos
            ELSE IF pos + bit <= Len(tree) /\ tree[pos + bit] < left
            THEN Descend(pos + bit, bit \div 2, left - tree[pos + bit])
            ELSE Descend(pos, bit \div 2, left)
    IN Descend(0, HighBit(Len(tree)), k)

\* subtract_rolling_baseline(trace, window, quantile = qnum / qden)
subtract_rolling_baseline(trace, window, qnum, qden) ==
    LET \* binary search of v in the sorted values: its 0-based position
        Compress(sorted_vals, v) ==
            (CHOOSE i \in 1..Len(sorted_vals) : sorted_vals[i] = v) - 1
        \* rank in a window: round((win_size - 1) * q), at most win_size - 1
        Rank(win_size) == Min(Rnd((win_size - 1) * qnum, qden), win_size - 1)
        \* the tree after the entering element is added and the leaving one removed
        WindowTree(tree, sorted_vals, t) ==
            IF t >= window
            THEN Fenwick_update(
                     Fenwick_update(tree, Compress(sorted_vals, trace[t + 1]), 1),
                     Compress(sorted_vals, trace[t + 1 - window]), 0 - 1)
            ELSE Fenwick_update(tree, Compress(sorted_vals, trace[t + 1]), 1)
        RECURSIVE Baselines(_, _, _, _)
        Push(tree, sorted_vals, t, acc) ==
            Baselines(tree, sorted_vals, t + 1,
                Append(acc, sorted_vals[Fenwick_kth(tree,
                                            Rank(Min(t + 1, window)) + 1) + 1]))
        \* the loop over t = 0 .. n - 1 (trace[t + 1] here)
        Baselines(tree, sorted_vals, t, acc) ==
            IF t >= Len(trace) THEN acc
            ELSE Push(WindowTree(tree, sorted_vals, t), sorted_vals, t, acc)
        Subtract(b) == [i \in 1..Len(trace) |-> trace[i] - b[i]]
        With(sorted_vals) ==
            Subtract(Baselines(FenwickTree_new(Len(sorted_vals)), sorted_vals, 0, <<>>))
    IN IF Len(trace) = 0 \/ window = 0 THEN trace
       ELSE With(SortedDistinct({trace[i] : i \in 1..Len(trace)}))

-----------------------------------------------------------------------------
(* Threshold search (threshold.rs) *)

\* 1e-10 on the fixed-point grid: the least positive value
Tiny == 1

\* f64::INFINITY and f64::NEG_INFINITY
Infinity == 2147483647

NegInfinity == 0 - Infinity

\* the quotient 0.0 / 0.0
NaN == NegInfinity + 1

fine_n == 50

\* thresholds are kept in units of 1 / ((fine_n - 1) * One)
ThScale == fine_n - 1

boundary_padding(u) == CeilDiv(2 * TauDFsNum * u, TauDFsDen)

binarize(s, thresh) ==
    [i \in 1..Len(s) |-> IF ThScale * s[i] >= thresh THEN One ELSE 0]

\* the samples pad .. n - pad - 1 (0-based) of v: the inner region
Inner(v, pad) == [k \in 1..Max(Max(Len(v) - pad, 0) - pad, 0) |-> v[pad + k]]

\* lstsq_alpha_baseline without the constraint alpha >= 0
lstsq_alpha_baseline_unclamped(conv, y, pad) ==
    LET FromSums(count, sum_c, sum_y, sum_cc, sum_cy) ==
            IF sum_cc * count - sum_c * sum_c = 0 THEN <<0, Rnd(sum_y, count)>>
            ELSE <<Rnd((sum_cy * count - sum_c * sum_y) * One,
                       sum_cc * count - sum_c * sum_c),
                   Rnd(sum_cc * sum_y - sum_c * sum_cy,
                       sum_cc * count - sum_c * sum_c)>>
        OverInner(c, v) ==
            FromSums(Len(v), SumSeq(c), SumSeq(v),
                     SumSeq([i \in 1..Len(c) |-> c[i] * c[i]]),
                     SumSeq([i \in 1..Len(c) |-> c[i] * v[i]]))
    IN IF Max(Len(y) - pad, 0) <= pad THEN <<0, 0>>
       ELSE OverInner(Inner(conv, pad), Inner(y, pad))

\* <<alpha, baseline>> of y ~ alpha * conv + baseline over the inner region
lstsq_alpha_baseline(conv, y, pad) ==
    LET \* the solution of the 2x2 normal equations from the sums
        FromSums(count, sum_c, sum_y, sum_cc, sum_cy) ==
            IF sum_cc * count - sum_c * sum_c = 0 THEN <<0, Rnd(sum_y, count)>>
            ELSE IF sum_cy * count - sum_c * sum_y < 0 THEN <<0, Rnd(sum_y, count)>>
            ELSE <<Rnd((sum_cy * count - sum_c * sum_y) * One,
                       sum_cc * count - sum_c * sum_c),
                   Rnd(sum_cc * sum_y - sum_c * sum_cy,
                       sum_cc * count - sum_c * sum_c)>>
        OverInner(c, v) ==
            FromSums(Len(v), SumSeq(c), SumSeq(v),
                     SumSeq([i \in 1..Len(c) |-> c[i] * c[i]]),
                     SumSeq([i \in 1..Len(c) |-> c[i] * v[i]]))
    IN IF Max(Len(y) - pad, 0) <= pad THEN <<0, 0>>
       ELSE OverInner(Inner(conv, pad), Inner(y, pad))

\* sum of (y - (alpha * c + baseline))^2, ab = <<alpha, baseline>>
SquaredError(c, y, ab) ==
    SumSeq([i \in 1..Len(y) |->
              (y[i] - (MulFx(ab[1], c[i]) + ab[2])) * (y[i] - (MulFx(ab[1], c[i]) + ab[2]))])

\* binarize, convolve, least squares, error over the inner region
evaluate_threshold(s_relaxed, y, banded, threshold, pad) ==
    LET OfFit(conv, ab) == SquaredError(Inner(conv, pad), Inner(y, pad), ab)
        OfConv(conv) == OfFit(conv, lstsq_alpha_baseline(conv, y, pad))
    IN OfConv(banded_convolve_forward(banded, binarize(s_relaxed, threshold)))

\* one sweep over the thresholds ths; best is [error, threshold]
RECURSIVE Sweep(_, _, _, _, _, _, _)
Sweep(s_relaxed, y, banded, pad, ths, best, consecutive_increases) ==
    LET Step(err) ==
            IF err < best.error
            THEN Sweep(s_relaxed, y, banded, pad, Tail(ths),
                       [error |-> err, threshold |-> Head(ths)], 0)
            ELSE IF consecutive_increases + 1 >= 10 THEN best
            ELSE Sweep(s_relaxed, y, banded, pad, Tail(ths), best,
                       consecutive_increases + 1)
    IN IF ths = <<>> THEN best
       ELSE Step(evaluate_threshold(s_relaxed, y, banded, Head(ths), pad))

coarse_n(vals) == Min(50, Len(vals))

\* vals[round(i * coarse_step)] for i = 0 .. coarse_n - 1, deduplicated
coarse_thresholds(vals) ==
    LET RECURSIVE Dedup(_)
        \* dedup_by: drops an element equal to the one kept before it
        Dedup(s) ==
            IF Len(s) <= 1 THEN s
            ELSE IF s[1] = s[2] THEN Dedup(Tail(s))
            ELSE <<s[1]>> \o Dedup(Tail(s))
    IN Dedup([k \in 1..coarse_n(vals) |->
                ThScale * vals[Min(IF Len(vals) > 1
                                   THEN Rnd((k - 1) * (Len(vals) - 1),
                                            Max(coarse_n(vals) - 1, 1))
                                   ELSE k - 1,
                                   Len(vals) - 1) + 1]])

\* half-width of the fine sweep around the best coarse threshold
spread(vals, best_threshold) ==
    IF Len(vals) > 1
    THEN Rnd(ThScale * (vals[Len(vals)] - vals[1]) * 2, coarse_n(vals))
    ELSE Rnd(best_threshold, 5)

\* fine_lo + i * fine_step for i = 0 .. fine_n - 1
fine_thresholds(best_threshold, spr) ==
    LET Grid(fine_lo, fine_hi) ==
            [k \in 1..fine_n |->
               fine_lo + Rnd((k - 1) * (fine_hi - fine_lo), Max(fine_n - 1, 1))]
    IN Grid(Max(best_threshold - spr, 0), best_threshold + spr)

threshold_search(s_relaxed, y, banded, u) ==
    LET pad == Min(boundary_padding(u), Len(s_relaxed) \div 4)
        \* proportion of variance explained over the inner region
        Pve(c, v, ab) ==
            IF Len(v) = 0 THEN 0
            ELSE IF SumSeq([i \in 1..Len(v) |->
                              (v[i] - Rnd(SumSeq(v), Len(v)))
                              * (v[i] - Rnd(SumSeq(v), Len(v)))]) >= Tiny
            THEN One - Rnd(SquaredError(c, v, ab) * One,
                           SumSeq([i \in 1..Len(v) |->
                                     (v[i] - Rnd(SumSeq(v), Len(v)))
                                     * (v[i] - Rnd(SumSeq(v), Len(v)))]))
            ELSE 0
        \* the final pass at the best threshold
        Fit(s_bin, conv, best, ab) ==
            [s_binary |-> s_bin, alpha |-> ab[1], baseline |-> ab[2],
             threshold |-> best.threshold,
             pve |-> Pve(Inner(conv, pad), Inner(y, pad), ab),
             error |-> best.error]
        Conv(s_bin, conv, best) ==
            Fit(s_bin, conv, best, lstsq_alpha_baseline(conv, y, pad))
        Final(s_bin, best) == Conv(s_bin, banded_convolve_forward(banded, s_bin), best)
        FinalPass(best) == Final(binarize(s_relaxed, best.threshold), best)
        Fine(vals, coarse_best) ==
            FinalPass(Sweep(s_relaxed, y, banded, pad,
                            fine_thresholds(coarse_best.threshold,
                                            spread(vals, coarse_best.threshold)),
                            coarse_best, 0))
        Over(vals) ==
            IF vals = <<>>
            THEN [s_binary |-> Zeros(Len(s_relaxed)), alpha |-> 0,
                  \* sum::<f64>() / n as f64
                  baseline |-> IF Len(s_relaxed) = 0 THEN NaN
                               ELSE Rnd(SumSeq(y), Len(s_relaxed)),
                  threshold |-> 0, pve |-> 0, error |-> Infinity]
            ELSE Fine(vals, Sweep(s_relaxed, y, banded, pad, coarse_thresholds(vals),
                                  [error |-> Infinity, threshold |-> 0], 0))
    IN Over(SortedDistinct({s_relaxed[i] : i \in {j \in 1..Len(s_relaxed) :
                                                    s_relaxed[j] >= Tiny}}))

-----------------------------------------------------------------------------
(* solve_trace (indeca.rs) *)

MAX_SCALE_ITERS == 10

RECURSIVE SeqMaxFrom(_, _)
SeqMaxFrom(s, m) == IF s = <<>> THEN m ELSE SeqMaxFrom(Tail(s), Max(Head(s), m))

estimate_alpha_interior(trace, pad) ==
    LET RECURSIVE MinFrom(_, _)
        MinFrom(s, m) == IF s = <<>> THEN m ELSE MinFrom(Tail(s), Min(Head(s), m))
        \* hi - lo of the folds from +inf and -inf; -inf on an empty slice
        PeakToTrough(s) ==
            IF s = <<>> THEN NegInfinity
            ELSE SeqMaxFrom(s, Head(s)) - MinFrom(s, Head(s))
        FromPtp(ptp) == IF ptp < Tiny THEN One ELSE ptp
        Of(inner) ==
            IF inner = <<>> THEN FromPtp(PeakToTrough(trace))
            ELSE FromPtp(PeakToTrough(inner))
    IN Of(Inner(trace, Min(pad, Len(trace))))

interior_peak(s, pad) ==
    IF Inner(s, Min(pad, Len(s))) # <<>>
    THEN SeqMaxFrom(Inner(s, Min(pad, Len(s))), 0)
    ELSE SeqMaxFrom(s, 0)

\* v[i] * (1 / denom)
ScaleBy(v, denom) == [i \in 1..Len(v) |-> MulFx(v[i], DivFx(One, denom))]

\* |alpha_lstsq / alpha_est - 1| < SCALE_RTOL (0.05) for a positive alpha_est
ScaleConverged_loose(alpha_est, alpha_lstsq) ==
    alpha_est >= Tiny /\ Abs(alpha_lstsq - alpha_est) * 2 < alpha_est

ScaleConverged(alpha_est, alpha_lstsq) ==
    alpha_est >= Tiny /\ Abs(alpha_lstsq - alpha_est) * 20 < alpha_est

\* the best result kept whenever the round's PVE is not below the best so far
KeepBest_ties(best, best_pve, r) ==
    IF r.pve >= best_pve THEN <<r>> ELSE best

\* if pve > best_pve { best_result = Some(..) }
KeepBest(best, best_pve, r) ==
    IF r.pve > best_pve THEN <<r>> ELSE best

\* the warm start handed to solve_upsampled in every round
RoundWarm_always(scale_iter, warm) == warm

\* if scale_iter == 0 { warm_binary.as_deref() } else { None }
RoundWarm(scale_iter, warm) == IF scale_iter = 0 THEN warm ELSE <<>>

\* one round of the scale loop: prescale, FISTA, normalise, search the threshold
scale_round(s0, working_trace, u, max_iters, tol, warm, pad, scale_iter, alpha_est) ==
    LET Result(sol, th) ==
            [s |-> sol.s,
             r |-> [round |-> scale_iter, alpha_est |-> alpha_est,
                    s_binary |-> th.s_binary, alpha |-> th.alpha,
                    baseline |-> th.baseline, threshold |-> th.threshold,
                    pve |-> th.pve, iterations |-> sol.iterations,
                    converged |-> sol.converged, start |-> sol.start]]
        Normalize(s_relaxed, s_peak) ==
            IF s_peak >= Tiny THEN ScaleBy(s_relaxed, s_peak) ELSE s_relaxed
        Search(sol) ==
            Result(sol, threshold_search(
                            Normalize(sol.solution, interior_peak(sol.solution, pad)),
                            working_trace, BandedAR2_new(u), u))
    IN Search(solve_upsampled(s0, ScaleBy(working_trace, alpha_est), u, max_iters, tol,
                              RoundWarm(scale_iter, warm),
                              FALSE, FALSE, "Box01", TRUE))

\* InDecaResult built from the best round, or from the fallback when none
ExtractResult(best, wt_len, u) ==
    LET From(b) ==
            [round |-> b.round, s_counts |-> downsample_binary(b.s_binary, u),
             alpha |-> b.alpha, baseline |-> b.baseline, threshold |-> b.threshold,
             pve |-> b.pve, iterations |-> b.iterations, converged |-> b.converged]
    IN IF best = <<>>
       THEN From([round |-> 0 - 1, s_binary |-> Zeros(wt_len), alpha |-> 0,
                  baseline |-> 0, threshold |-> 0, pve |-> 0, iterations |-> 0,
                  converged |-> FALSE])
       ELSE From(best[1])

-----------------------------------------------------------------------------
(* The pipeline as a process: start (steps 1-2), scale rounds (step 3),
   extraction (step 4) *)

\* longest trace and largest upsample factor handed to solve_trace
MaxT == 3

MaxFactor == 2

PipeVals == {0, One, 2 * One}

PipeTraces == UNION {SeqsOfLen(PipeVals, n) : n \in 0..MaxT}

PipeMaxIters == {0, batch_size}

\* warm_counts: None, one spike in every bin, or one bin too many
WarmCounts(n) == {<<>>, <<[i \in 1..n |-> One]>>, <<[i \in 1..(n + 1) |-> One]>>}

PipeIdle == [pc |-> "idle"]

InitPipe ==
    /\ solver = Solver_new
    /\ twin = Solver_new
    /\ call = NoCall
    /\ drv = NoDrv
    /\ pipe = PipeIdle

\* the state of solve_trace on entering the scale loop
PipeEnter(trace, u, max_iters, tol, hp, lp, warm, prepass, working_trace) ==
    [pc |-> "scale", trace |-> trace, u |-> u, max_iters |-> max_iters, tol |-> tol,
     hp |-> hp, lp |-> lp,
     warm_binary |-> IF warm = <<>> THEN <<>>
                     ELSE <<upsample_counts_to_binary(warm[1], u)>>,
     prepass |-> prepass,
     working_trace |-> working_trace,
     pad |-> Min(boundary_padding(u), Len(working_trace) \div 4),
     alpha_est |-> estimate_alpha_interior(working_trace,
                       Min(boundary_padding(u), Len(working_trace) \div 4)),
     scale_iter |-> 0, best |-> <<>>, best_pve |-> NegInfinity, rounds |-> <<>>,
     result |-> <<>>]

\* steps 1-2 with a filter enabled: the pre-pass gives the filtered trace
PipeStartFiltered ==
    /\ pipe.pc = "idle"
    /\ \E trace \in PipeTraces, u \in 1..MaxFactor, max_iters \in PipeMaxIters,
          hp \in BOOLEAN, lp \in BOOLEAN :
          /\ hp \/ lp
          /\ \E warm \in WarmCounts(Len(trace)),
                r \in {solve_upsampled(Solver_new, upsample_trace(trace, u), u, 1, 1,
                                       <<>>, hp, lp, "Box01", FALSE)} :
                /\ solver' = r.s
                /\ pipe' = PipeEnter(trace, u, max_iters, 1, hp, lp, warm,
                              <<r.iterations>>,
                              subtract_rolling_baseline(r.filtered[1],
                                                        baseline_window(u), 1, 5))
    /\ UNCHANGED <<twin, call, drv>>

\* steps 1-2 without a filter
PipeStartPlain ==
    /\ pipe.pc = "idle"
    /\ \E trace \in PipeTraces, u \in 1..MaxFactor, max_iters \in PipeMaxIters :
          \E warm \in WarmCounts(Len(trace)) :
             /\ solver' = Solver_new
             /\ pipe' = PipeEnter(trace, u, max_iters, 1, FALSE, FALSE, warm, <<>>,
                           subtract_rolling_baseline(upsample_trace(trace, u),
                                                     baseline_window(u), 1, 5))
    /\ UNCHANGED <<twin, call, drv>>

\* the loop leaves after this round
ScaleStops(scale_iter, alpha_est, alpha_lstsq) ==
    \/ ScaleConverged(alpha_est, alpha_lstsq)
    \/ alpha_lstsq < Tiny
    \/ scale_iter + 1 >= MAX_SCALE_ITERS

\* one pass of the body of the scale loop
PipeRound ==
    /\ pipe.pc = "scale"
    /\ \E q \in {scale_round(solver, pipe.working_trace, pipe.u, pipe.max_iters,
                             pipe.tol, pipe.warm_binary, pipe.pad, pipe.scale_iter,
                             pipe.alpha_est)} :
          /\ solver' = q.s
          /\ pipe' = [pipe EXCEPT
                 !.best = KeepBest(pipe.best, pipe.best_pve, q.r),
                 !.best_pve = IF q.r.pve > pipe.best_pve THEN q.r.pve ELSE @,
                 !.rounds = Append(@, q.r),
                 !.scale_iter = @ + 1,
                 !.alpha_est = IF ScaleStops(pipe.scale_iter, pipe.alpha_est, q.r.alpha)
                               THEN @ ELSE q.r.alpha,
                 !.pc = IF ScaleStops(pipe.scale_iter, pipe.alpha_est, q.r.alpha)
                        THEN "extract" ELSE "scale"]
    /\ UNCHANGED <<twin, call, drv>>

\* step 4: the best result, downsampled
PipeExtract ==
    /\ pipe.pc = "extract"
    /\ pipe' = [pipe EXCEPT
           !.pc = "done",
           !.result = <<ExtractResult(pipe.best, Len(pipe.working_trace), pipe.u)>>]
    /\ UNCHANGED <<solver, twin, call, drv>>

\* the result is taken; the next call starts anew
PipeReset ==
    /\ pipe.pc = "done"
    /\ pipe' = PipeIdle
    /\ solver' = Solver_new
    /\ UNCHANGED <<twin, call, drv>>

NextPipe ==
    \/ PipeStartFiltered
    \/ PipeStartPlain
    \/ PipeRound
    \/ PipeExtract
    \/ PipeReset

SpecPipe == InitPipe /\ [][NextPipe]_vars

\* the result of a finished solve_trace call
PipeDone == pipe.pc = "done"

\* C6: for every trace of length T and every upsample factor U >= 1,
\* solve_trace returns s_counts of length exactly T, and every entry is the
\* sum of U binary samples: one of 0, 1, .., U.
C6_CountsShape ==
    PipeDone =>
        /\ Len(pipe.result[1].s_counts) = Len(pipe.trace)
        /\ \A i \in 1..Len(pipe.result[1].s_counts) :
              \E k \in 0..pipe.u : pipe.result[1].s_counts[i] = k * One

\* a factor above 1, and a bin that holds as many spikes as the factor
C6_Witness ==
    /\ PipeDone
    /\ pipe.u >= 2
    /\ Len(pipe.trace) >= 2
    /\ \E i \in 1..Len(pipe.trace) : pipe.result[1].s_counts[i] = pipe.u * One
    /\ \E i \in 1..Len(pipe.trace) : pipe.result[1].s_counts[i] = 0

\* C7: solve_trace returns the round with the highest PVE of all rounds
\* run: the returned pve is >= the PVE of every round, the spike train,
\* alpha, baseline, threshold, iteration count and converged flag are those
\* of that one round, and it is the earliest round with that PVE.
C7_BestRoundReturned ==
    PipeDone =>
        \E k \in 1..Len(pipe.rounds) :
            /\ pipe.result[1].round = k - 1
            /\ pipe.result[1].s_counts = downsample_binary(pipe.rounds[k].s_binary, pipe.u)
            /\ pipe.result[1].alpha = pipe.rounds[k].alpha
            /\ pipe.result[1].baseline = pipe.rounds[k].baseline
            /\ pipe.result[1].threshold = pipe.rounds[k].threshold
            /\ pipe.result[1].pve = pipe.rounds[k].pve
            /\ pipe.result[1].iterations = pipe.rounds[k].iterations
            /\ pipe.result[1].converged = pipe.rounds[k].converged
            /\ \A j \in 1..Len(pipe.rounds) : pipe.rounds[j].pve <= pipe.result[1].pve
            /\ \A j \in 1..(k - 1) : pipe.rounds[j].pve < pipe.result[1].pve

\* the winner is neither the first nor the last round, a later round ties
\* with it and another later round differs from it
C7_Witness ==
    /\ PipeDone
    /\ pipe.result[1].round > 0
    /\ pipe.result[1].round + 1 < Len(pipe.rounds)
    /\ \E j \in (pipe.result[1].round + 2)..Len(pipe.rounds) :
          /\ pipe.rounds[j].pve = pipe.result[1].pve
          /\ pipe.rounds[j].s_binary # pipe.rounds[pipe.result[1].round + 1].s_binary

C9_EmptyTraceZeros ==
    (PipeDone /\ pipe.trace = <<>>) =>
        /\ pipe.result[1].s_counts = <<>>
        /\ pipe.result[1].alpha = 0
        /\ pipe.result[1].baseline = 0
        /\ pipe.result[1].threshold = 0
        /\ pipe.result[1].pve = 0

\* C10: for an all-zero trace of any length and any upsample factor every
\* entry of s_counts is 0.
C10_ZeroTraceNoSpikes ==
    (PipeDone /\ \A i \in 1..Len(pipe.trace) : pipe.trace[i] = 0) =>
        \A j \in 1..Len(pipe.result[1].s_counts) : pipe.result[1].s_counts[j] = 0

-----------------------------------------------------------------------------
(* Bi-exponential fit (biexp_fit.rs). Time constants are whole numbers of
   ticks, TauOne ticks to the second; fs is in samples per second. *)

TauOne == 10000

grid_n == 20

\* exp(log_tr) for i = 0 .. grid_n - 1: 0.005 s .. 0.5 s, log-spaced
tau_r_grid ==
    <<50, 64, 81, 103, 132, 168, 214, 273, 348, 443,
      564, 719, 916, 1168, 1488, 1896, 2416, 3079, 3924, 5000>>

\* exp(log_td) for j = 0 .. grid_n - 1: 0.05 s .. 5 s, log-spaced
tau_d_grid == [j \in 1..grid_n |-> 10 * tau_r_grid[j]]

\* exp(-x) of x >= 0 (x in units of 1 / One), by halving and squaring
ExpNeg(x) ==
    LET E == 16384
        RECURSIVE Of(_)
        Sq(v) == Rnd(v * v, E)
        Of(z) == IF z >= 32 * E THEN 0
                 ELSE IF 8 * z <= E THEN Rnd((2 * E - z) * E, 2 * E + z)
                 ELSE Sq(Of(z \div 2))
    IN Rnd(Of(x * (E \div One)), E \div One)

\* <<beta, residual>> of the closed-form fit at (tau_r, tau_d)
eval_biexp(h_free, tau_r, tau_d, fs) ==
    LET \* exp(-t / tau_d) - exp(-t / tau_r) at t = i * dt
        Template(i) ==
            ExpNeg(Rnd(Rnd(i * TauOne * One, fs), tau_d))
            - ExpNeg(Rnd(Rnd(i * TauOne * One, fs), tau_r))
        \* the three dot products are kept unrounded, in units of 1 / One^2
        FromDots(dot_ht, dot_tt, dot_hh) ==
            IF dot_tt < Tiny THEN <<0, Infinity>>
            ELSE <<DivFx(dot_ht, dot_tt),
                   Rnd(dot_hh - Rnd(dot_ht * dot_ht, dot_tt), One)>>
        RECURSIVE Dots(_, _, _, _)
        Add(i, dot_ht, dot_tt, dot_hh, template) ==
            Dots(i + 1, dot_ht + h_free[i] * template, dot_tt + template * template,
                 dot_hh + h_free[i] * h_free[i])
        \* the single pass over the samples
        Dots(i, dot_ht, dot_tt, dot_hh) ==
            IF i > Len(h_free) THEN FromDots(dot_ht, dot_tt, dot_hh)
            ELSE Add(i, dot_ht, dot_tt, dot_hh, Template(i - 1))
    IN Dots(1, 0, 0, 0)

\* <<tau_r, tau_d>> after max_steps alternating golden-section searches
golden_section_refine(h_free, best, fs, max_steps) ==
    LET \* phi * w, phi = (sqrt(5) - 1) / 2
        Phi(w) == (w \div 1000) * 618 + Rnd((w % 1000) * 618, 1000)
        RECURSIVE Section(_, _, _, _, _)
        Residual(on_rise, x, other) ==
            IF on_rise THEN eval_biexp(h_free, x, other, fs)[2]
            ELSE eval_biexp(h_free, other, x, fs)[2]
        Narrow(on_rise, other, lo, hi, k, r1, r2) ==
            IF r1 < r2 THEN Section(on_rise, other, lo, lo + Phi(hi - lo), k - 1)
            ELSE Section(on_rise, other, hi - Phi(hi - lo), hi, k - 1)
        \* the ten narrowing passes, then the midpoint
        Section(on_rise, other, lo, hi, k) ==
            IF k = 0 THEN (lo + hi) \div 2
            ELSE Narrow(on_rise, other, lo, hi, k,
                        Residual(on_rise, hi - Phi(hi - lo), other),
                        Residual(on_rise, lo + Phi(hi - lo), other))
        RECURSIVE Steps(_, _, _)
        Rise(step, tau_r, tau_d, lo, hi) ==
            IF lo >= hi THEN Steps(step + 1, tau_r, tau_d)
            ELSE Steps(step + 1, Section(TRUE, tau_d, lo, hi, 10), tau_d)
        Decay(step, tau_r, tau_d, lo, hi) ==
            IF lo >= hi THEN Steps(step + 1, tau_r, tau_d)
            ELSE Steps(step + 1, tau_r, Section(FALSE, tau_r, lo, hi, 10))
        Steps(step, tau_r, tau_d) ==
            IF step >= max_steps THEN <<tau_r, tau_d>>
            ELSE IF step % 2 = 0
            THEN Rise(step, tau_r, tau_d, Max(Rnd(tau_r, 2), TauOne \div 1000),
                      Min(tau_r * 2, tau_d - Rnd(tau_d, 100)))
            ELSE Decay(step, tau_r, tau_d, Max(Rnd(tau_d, 2), tau_r + Rnd(tau_r, 100)),
                       tau_d * 2)
    IN Steps(0, best.tau_rise, best.tau_decay)

\* a grid cell that keeps every pair of time constants
GridAccepts_all(tau_r, tau_d) == TRUE

\* the cells the grid evaluates: tau_d <= tau_r is skipped
GridAccepts(tau_r, tau_d) == tau_d > tau_r

\* the refined point adopted whatever its residual
RefineAdopts_always(residual, best_residual) == TRUE

\* the refined point is adopted only when its residual is lower
RefineAdopts(residual, best_residual) == residual < best_residual

fit_biexponential(h_free, fs, refine) ==
    LET Start == [tau_rise |-> TauOne \div 50, tau_decay |-> (4 * TauOne) \div 10,
                  beta |-> 0, residual |-> Infinity]
        RECURSIVE Row(_, _, _)
        Cell(i, j, best, br) ==
            IF br[2] < best.residual
            THEN Row(i, j + 1, [tau_rise |-> tau_r_grid[i], tau_decay |-> tau_d_grid[j],
                                beta |-> br[1], residual |-> br[2]])
            ELSE Row(i, j + 1, best)
        \* the inner loop over j
        Row(i, j, best) ==
            IF j > grid_n THEN best
            ELSE IF ~GridAccepts(tau_r_grid[i], tau_d_grid[j]) THEN Row(i, j + 1, best)
            ELSE Cell(i, j, best, eval_biexp(h_free, tau_r_grid[i], tau_d_grid[j], fs))
        RECURSIVE Grid(_, _)
        Merge(i, best, row_best) ==
            IF row_best.residual < best.residual THEN Grid(i + 1, row_best)
            ELSE Grid(i + 1, best)
        \* phase 1: the outer loop over i; a row replaces the best only with
        \* a lower residual, as each of its cells would
        Grid(i, best) ==
            IF i > grid_n THEN best ELSE Merge(i, best, Row(i, 1, Start))
        Adopt(best, rt, br) ==
            IF RefineAdopts(br[2], best.residual)
            THEN [tau_rise |-> rt[1], tau_decay |-> rt[2],
                  beta |-> br[1], residual |-> br[2]]
            ELSE best
        Refined(best, rt) == Adopt(best, rt, eval_biexp(h_free, rt[1], rt[2], fs))
        \* phase 2: the optional refinement
        Refine(best) ==
            IF refine THEN Refined(best, golden_section_refine(h_free, best, fs, 20))
            ELSE best
    IN IF Len(h_free) = 0 THEN Start ELSE Refine(Grid(1, Start))

-----------------------------------------------------------------------------

(* Free-form kernel estimation (kernel_est.rs) *)

\* the value returned, or the panic of a failed assert_eq!; iterations counts
\* the passes of the FISTA loop that were started
estimate_free_kernel(traces, spike_trains, alphas, baselines, trace_lengths, kernel_length, max_iters, tol, warm) ==
    LET n_traces == Len(trace_lengths)
        total_len == SumSeq(trace_lengths)
        RECURSIVE Locate(_, _, _)
        \* <<i, offset>> of the trace that holds the flat position p (from 1)
        Locate(p, i, offset) ==
            IF p <= offset + trace_lengths[i] THEN <<i, offset>>
            ELSE Locate(p, i + 1, offset + trace_lengths[i])
        \* t = position within its own trace, from 0
        TimeOf(p) == p - 1 - Locate(p, 1, 0)[2]
        \* a vector once its entries are computed
        Vec(f) == f \o <<>>
        \* convolve_spikes_kernel: output[t] = sum_k h[k] * s[t - k]
        Convolve(h) ==
            Vec([p \in 1..total_len |->
                   SumSeq([k \in 1..Min(kernel_length, TimeOf(p) + 1) |->
                             MulFx(h[k], spike_trains[p - (k - 1)])])])
        \* S^T r: entry k gathers r[t] * s[t - k] over every trace
        Adjoint(r) ==
            Vec([k \in 1..kernel_length |->
                   SumSeq([p \in 1..total_len |->
                             IF TimeOf(p) >= k - 1
                             THEN MulFx(r[p], spike_trains[p - (k - 1)]) ELSE 0])])
        \* y_adj = (y - baseline) / alpha, left 0 where |alpha| < 1e-20
        y_adj ==
            [p \in 1..total_len |->
               IF Abs(alphas[Locate(p, 1, 0)[1]]) < Tiny THEN 0
               ELSE DivFx(traces[p] - baselines[Locate(p, 1, 0)[1]],
                          alphas[Locate(p, 1, 0)[1]])]
        RECURSIVE Power(_, _)
        Normalize(round, stv, eigenvalue) ==
            IF eigenvalue < Tiny THEN One
            ELSE IF round = 20 THEN eigenvalue
            ELSE Power(round + 1,
                       Vec([k \in 1..kernel_length |-> DivFx(stv[k], eigenvalue)]))
        Eigen(round, stv) ==
            Normalize(round, stv, ISqrt(SumSeq([k \in 1..kernel_length |-> stv[k] * stv[k]])))
        \* power iteration on S^T S: the eigenvalue after 20 rounds
        Power(round, v) == Eigen(round, Adjoint(Convolve(v)))
        RECURSIVE Loop(_, _, _, _, _, _)
        Momentum(iter, h, h_prev, t_fista, t_new, step_size, steps) ==
            Loop(iter + 1, h,
                 Vec([k \in 1..kernel_length |->
                        Max(h[k] + MulFx(DivFx(t_fista - One, t_new), h[k] - h_prev[k]),
                            0)]),
                 t_new, step_size, steps)
        \* steps holds diff_sq and h_sq of every iteration executed
        Test(iter, h, h_prev, t_fista, step_size, diff_sq, h_sq, steps) ==
            IF ConvergenceTest(iter, diff_sq, h_sq, tol)
            THEN [panic |-> FALSE, h |-> h, iterations |-> iter + 1, broke |-> TRUE,
                  steps |-> Append(steps, [diff_sq |-> diff_sq, h_sq |-> h_sq])]
            ELSE Momentum(iter, h, h_prev, t_fista,
                          (One + ISqrt(One * One + 4 * t_fista * t_fista)) \div 2,
                          step_size,
                          Append(steps, [diff_sq |-> diff_sq, h_sq |-> h_sq]))
        Sums(iter, h_old, h, h_prev, t_fista, step_size, steps) ==
            Test(iter, h, h_prev, t_fista, step_size,
                 SumSeq([k \in 1..kernel_length |-> (h[k] - h_old[k]) * (h[k] - h_old[k])]),
                 SumSeq([k \in 1..kernel_length |-> h_old[k] * h_old[k]]), steps)
        Step(iter, h_old, h_prev, t_fista, step_size, gradient, steps) ==
            Sums(iter, h_old,
                 Vec([k \in 1..kernel_length |->
                        Max(h_prev[k] - MulFx(step_size, gradient[k]), 0)]),
                 h_prev, t_fista, step_size, steps)
        Residual(sh) == Vec([p \in 1..total_len |-> sh[p] - y_adj[p]])
        \* the FISTA loop: for iter in 0..max_iters
        Loop(iter, h, h_prev, t_fista, step_size, steps) ==
            IF iter >= max_iters
            THEN [panic |-> FALSE, h |-> h, iterations |-> iter, broke |-> FALSE,
                  steps |-> steps]
            ELSE Step(iter, h, h_prev, t_fista, step_size,
                      Adjoint(Residual(Convolve(h_prev))), steps)
        Start(h0, lipschitz) == Loop(0, h0, h0, One, DivFx(One, lipschitz), <<>>)
    IN IF \/ Len(alphas) # n_traces
          \/ Len(baselines) # n_traces
          \/ Len(traces) # total_len
          \/ Len(spike_trains) # total_len
       THEN [panic |-> TRUE, h |-> <<>>, iterations |-> 0, broke |-> FALSE, steps |-> <<>>]
       ELSE IF kernel_length = 0 \/ total_len = 0
       THEN [panic |-> FALSE, h |-> Zeros(kernel_length), iterations |-> 0,
             broke |-> FALSE, steps |-> <<>>]
       ELSE Start(IF warm # <<>> /\ Len(warm[1]) = kernel_length
                  THEN warm[1] ELSE Zeros(kernel_length),
                  Max(Power(1, [k \in 1..kernel_length |->
                                  DivFx(One * One, ISqrt(kernel_length * One * One))]),
                      One))

-----------------------------------------------------------------------------

(* The library functions called one at a time on bounded inputs: call holds
   the arguments and the value returned *)

FnIdle == [op |-> "none"]

InitFn ==
    /\ solver = Solver_new
    /\ twin = Solver_new
    /\ call = FnIdle
    /\ drv = NoDrv
    /\ pipe = NoPipe

\* spike counts per bin: whole numbers, some above the factor
CountVectors(factor) ==
    UNION {SeqsOfLen({k * One : k \in 0..(factor + 1)}, n) : n \in 0..MaxT}

\* upsample_counts_to_binary(counts, factor)
FnUpsampleCounts ==
    /\ call.op = "none"
    /\ \E factor \in 1..MaxFactor :
          \E counts \in CountVectors(factor) :
             call' = [op |-> "upsample_counts_to_binary", counts |-> counts,
                      factor |-> factor,
                      out |-> upsample_counts_to_binary(counts, factor)]
    /\ UNCHANGED <<solver, twin, drv, pipe>>

\* downsample_binary(s_bin, factor) on the binary train just produced
FnDownsampleBinary ==
    /\ call.op = "upsample_counts_to_binary"
    /\ call' = [op |-> "downsample_binary", counts |-> call.counts,
                factor |-> call.factor, s_bin |-> call.out,
                out |-> downsample_binary(call.out, call.factor)]
    /\ UNCHANGED <<solver, twin, drv, pipe>>

\* traces and quantiles handed to subtract_rolling_baseline
Quantiles == {<<0, 1>>, <<1, 5>>, <<1, 2>>, <<1, 1>>}

\* subtract_rolling_baseline(trace, window, quantile)
FnRollingBaseline ==
    /\ call.op = "none"
    /\ \E trace \in Traces, window \in 0..MaxT, q \in Quantiles :
          call' = [op |-> "subtract_rolling_baseline", trace |-> trace,
                   window |-> window, q |-> q,
                   out |-> subtract_rolling_baseline(trace, window, q[1], q[2])]
    /\ UNCHANGED <<solver, twin, drv, pipe>>

\* lstsq_alpha_baseline(conv, y, pad) on two vectors of one length
FnLstsq ==
    /\ call.op = "none"
    /\ \E y \in Traces, pad \in 0..2 :
          \E conv \in SeqsOfLen(TraceVals, Len(y)) :
             call' = [op |-> "lstsq_alpha_baseline", conv |-> conv, y |-> y,
                      pad |-> pad, out |-> lstsq_alpha_baseline(conv, y, pad)]
    /\ UNCHANGED <<solver, twin, drv, pipe>>

\* sum of a[i] * b[i], the products kept unrounded
InnerProduct(a, b) == SumSeq([i \in 1..Len(a) |-> a[i] * b[i]])

\* adjoint_identity: K x and K^T y for two vectors of one length, with the
\* two inner products <K x, y> and <x, K^T y>
FnAdjointIdentity ==
    /\ call.op = "none"
    /\ \E u \in 1..MaxFactor, x \in Traces :
          \E y \in SeqsOfLen(TraceVals, Len(x)) :
             \E kx \in {banded_convolve_forward(BandedAR2_new(u), x)},
                kty \in {banded_convolve_adjoint(BandedAR2_new(u), y)} :
                call' = [op |-> "adjoint_identity", u |-> u, x |-> x, y |-> y,
                         kx |-> kx, kty |-> kty,
                         lhs |-> InnerProduct(kx, y), rhs |-> InnerProduct(x, kty)]
    /\ UNCHANGED <<solver, twin, drv, pipe>>

\* the caller takes the value returned
FnReturn ==
    /\ call.op # "none"
    /\ call' = FnIdle
    /\ UNCHANGED <<solver, twin, drv, pipe>>

NextFn ==
    \/ FnUpsampleCounts
    \/ FnDownsampleBinary
    \/ FnRollingBaseline
    \/ FnLstsq
    \/ FnAdjointIdentity
    \/ FnReturn

SpecFn == InitFn /\ [][NextFn]_vars

-----------------------------------------------------------------------------
(* fit_biexponential called on one kernel without and then with refinement *)

\* sampling rates handed to fit_biexponential
BiexpRates == {10, 30}

\* fit_biexponential(h_free, fs, false)
FnFitBiexponential ==
    /\ call.op = "none"
    /\ \E h_free \in PipeTraces, fs \in BiexpRates :
          call' = [op |-> "fit_biexponential", h_free |-> h_free, fs |-> fs,
                   refine |-> FALSE,
                   coarse |-> fit_biexponential(h_free, fs, FALSE)]
    /\ UNCHANGED <<solver, twin, drv, pipe>>

\* fit_biexponential(h_free, fs, true) on the same kernel
FnFitRefined ==
    /\ call.op = "fit_biexponential"
    /\ ~call.refine
    /\ call' = [op |-> "fit_biexponential", h_free |-> call.h_free, fs |-> call.fs,
                refine |-> TRUE, coarse |-> call.coarse,
                refined |-> fit_biexponential(call.h_free, call.fs, TRUE)]
    /\ UNCHANGED <<solver, twin, drv, pipe>>

NextFit ==
    \/ FnFitBiexponential
    \/ FnFitRefined
    \/ FnReturn

SpecFit == InitFn /\ [][NextFit]_vars

-----------------------------------------------------------------------------
(* estimate_free_kernel called on bounded inputs *)

\* the lengths of the traces handed over, concatenated
KernelTraceLengths == {<<>>, <<2>>, <<1, 2>>}

\* per-trace amplitudes: zero or 2.0, and one vector with an entry too many
KernelAlphas(n) == SeqsOfLen({0, 2 * One}, n) \cup SeqsOfLen({2 * One}, n + 1)

\* no warm start, or one with negative entries
KernelWarm(k) == {<<>>, <<[i \in 1..k |-> 0 - One]>>}

FnEstimateFreeKernel ==
    /\ call.op = "none"
    /\ \E trace_lengths \in KernelTraceLengths, kernel_length \in 0..2,
          max_iters \in {0, 1, MaxIter} :
          \E traces \in SeqsOfLen({0, 2 * One}, SumSeq(trace_lengths)),
             spike_trains \in SeqsOfLen({0, One}, SumSeq(trace_lengths)),
             alphas \in KernelAlphas(Len(trace_lengths)),
             warm \in KernelWarm(kernel_length) :
             call' = [op |-> "estimate_free_kernel", traces |-> traces,
                      spike_trains |-> spike_trains, alphas |-> alphas,
                      trace_lengths |-> trace_lengths,
                      kernel_length |-> kernel_length, max_iters |-> max_iters,
                      tol |-> 1, warm |-> warm,
                      out |-> estimate_free_kernel(traces, spike_trains, alphas,
                                  Zeros(Len(trace_lengths)), trace_lengths,
                                  kernel_length, max_iters, 1, warm)]
    /\ UNCHANGED <<solver, twin, drv, pipe>>

\* the input with trace i taken out: its samples, spike train, alpha,
\* baseline and length
FnEstimateWithoutSkipped ==
    /\ call.op = "estimate_free_kernel"
    /\ ~call.out.panic
    /\ \E i \in 1..Len(call.trace_lengths) :
          /\ Abs(call.alphas[i]) < Tiny
          /\ LET offset == SumSeq(SubSeq(call.trace_lengths, 1, i - 1))
                 len == call.trace_lengths[i]
                 Cut(v) == SubSeq(v, 1, offset) \o SubSeq(v, offset + len + 1, Len(v))
                 Drop(v) == SubSeq(v, 1, i - 1) \o SubSeq(v, i + 1, Len(v))
             IN call' = [op |-> "estimate_free_kernel_without", skipped |-> i,
                         traces |-> call.traces, spike_trains |-> call.spike_trains,
                         alphas |-> call.alphas, trace_lengths |-> call.trace_lengths,
                         kernel_length |-> call.kernel_length,
                         max_iters |-> call.max_iters, tol |-> call.tol,
                         warm |-> call.warm, with |-> call.out,
                         out |-> estimate_free_kernel(Cut(call.traces),
                                     Cut(call.spike_trains), Drop(call.alphas),
                                     Zeros(Len(call.trace_lengths) - 1),
                                     Drop(call.trace_lengths), call.kernel_length,
                                     call.max_iters, call.tol, call.warm)]
    /\ UNCHANGED <<solver, twin, drv, pipe>>

NextKernel ==
    \/ FnEstimateFreeKernel
    \/ FnEstimateWithoutSkipped
    \/ FnReturn

SpecKernel == InitFn /\ [][NextKernel]_vars

-----------------------------------------------------------------------------
(* threshold_search as a process: one step per evaluated threshold; call
   holds the locals of the function and the evaluations made so far *)

\* length of the longer relaxed solutions handed to threshold_search
SweepLen == 13

\* relaxed solutions in [0, 1]: none positive, one value, a few, a rising
\* and a falling run of distinct values
SweepSolutions ==
    {<<>>, <<0, 0>>, <<One \div 2>>, <<One \div 4, 0, 3 * (One \div 4), One \div 4>>,
     <<4, 0, One, 0, 4, 0>>,
     [i \in 1..SweepLen |-> 4 * i], [i \in 1..SweepLen |-> 4 * (SweepLen + 1 - i)]}

\* traces: spikes where the relaxed solution reaches level (everywhere for
\* level 0), amplitude 1, floor 0
SweepTraces(s_relaxed, u) ==
    {[i \in 1..Len(s_relaxed) |->
        banded_convolve_forward(BandedAR2_new(u),
                                binarize(s_relaxed, ThScale * level))[i]] :
       level \in {0, 8, One \div 2, One - 8}}

\* the body of the loop of either sweep, after evaluate_threshold gave err
SweepBody_nonstrict(best, consecutive_increases, thresh, err) ==
    IF err <= best.error
    THEN [best |-> [error |-> err, threshold |-> thresh],
          consecutive_increases |-> 0, stop |-> FALSE]
    ELSE [best |-> best, consecutive_increases |-> consecutive_increases + 1,
          stop |-> consecutive_increases + 1 >= 10]

\* the body of the loop of either sweep, after evaluate_threshold gave err
SweepBody(best, consecutive_increases, thresh, err) ==
    IF err < best.error
    THEN [best |-> [error |-> err, threshold |-> thresh],
          consecutive_increases |-> 0, stop |-> FALSE]
    ELSE [best |-> best, consecutive_increases |-> consecutive_increases + 1,
          stop |-> consecutive_increases + 1 >= 10]

\* entry of threshold_search up to the first coarse threshold, at the base
\* rate
SweepBegin ==
    /\ call.op = "none"
    /\ \E u \in {1}, s_relaxed \in SweepSolutions :
          \E y \in SweepTraces(s_relaxed, u),
             vals \in {SortedDistinct({s_relaxed[i] : i \in {j \in 1..Len(s_relaxed) :
                                                              s_relaxed[j] >= Tiny}})} :
             call' = [op |-> "threshold_search", s_relaxed |-> s_relaxed, y |-> y,
                      u |-> u, vals |-> vals,
                      pad |-> Min(boundary_padding(u), Len(s_relaxed) \div 4),
                      pc |-> IF vals = <<>> THEN "final" ELSE "coarse",
                      coarse_thresholds |->
                          IF vals = <<>> THEN <<>> ELSE coarse_thresholds(vals),
                      fine_thresholds |-> <<>>, coarse_best |-> 0,
                      i |-> 0,
                      best |-> [error |-> Infinity, threshold |-> 0],
                      consecutive_increases |-> 0,
                      evaluated |-> <<>>,
                      out |-> <<>>]
    /\ UNCHANGED <<solver, twin, drv, pipe>>

\* one pass of the body of the coarse or of the fine loop
SweepEvaluate ==
    /\ call.op = "threshold_search"
    /\ call.pc \in {"coarse", "fine"}
    /\ \E ths \in {IF call.pc = "coarse" THEN call.coarse_thresholds
                   ELSE call.fine_thresholds} :
          /\ call.i < Len(ths)
          /\ \E err \in {evaluate_threshold(call.s_relaxed, call.y,
                                            BandedAR2_new(call.u), ths[call.i + 1],
                                            call.pad)} :
                \E b \in {SweepBody(call.best, call.consecutive_increases,
                                    ths[call.i + 1], err)} :
                   call' = [call EXCEPT
                       !.best = b.best,
                       !.consecutive_increases = b.consecutive_increases,
                       !.i = IF b.stop THEN Len(ths) ELSE call.i + 1,
                       !.evaluated =
                           Append(@, [sweep |-> call.pc, thresh |-> ths[call.i + 1],
                                      err |-> err, best_error |-> b.best.error,
                                      consecutive_increases |-> b.consecutive_increases])]
    /\ UNCHANGED <<solver, twin, drv, pipe>>

\* between the loops: spread, fine_lo, fine_hi, fine_step, the counter reset
SweepFineStart ==
    /\ call.op = "threshold_search"
    /\ call.pc = "coarse"
    /\ call.i = Len(call.coarse_thresholds)
    /\ call' = [call EXCEPT
           !.pc = "fine",
           !.coarse_best = call.best.threshold,
           !.fine_thresholds = fine_thresholds(call.best.threshold,
                                   spread(call.vals, call.best.threshold)),
           !.i = 0,
           !.consecutive_increases = 0]
    /\ UNCHANGED <<solver, twin, drv, pipe>>

\* the final pass at the best threshold, or the return for no positive value
SweepFinal ==
    /\ call.op = "threshold_search"
    /\ \/ call.pc = "final"
       \/ call.pc = "fine" /\ call.i = Len(call.fine_thresholds)
    /\ call' = [call EXCEPT
           !.pc = "done",
           !.out = <<threshold_search(call.s_relaxed, call.y, BandedAR2_new(call.u),
                                      call.u)>>]
    /\ UNCHANGED <<solver, twin, drv, pipe>>

\* the caller takes the result
SweepReturn ==
    /\ call.op = "threshold_search"
    /\ call.pc = "done"
    /\ call' = FnIdle
    /\ UNCHANGED <<solver, twin, drv, pipe>>

NextSweep ==
    \/ SweepBegin
    \/ SweepEvaluate
    \/ SweepFineStart
    \/ SweepFinal
    \/ SweepReturn

SpecSweep == InitFn /\ [][NextSweep]_vars

-----------------------------------------------------------------------------

(* Properties of the library functions *)

\* C11: for every factor U >= 1 and every vector c of whole counts with
\* 0 <= c[i] <= U, downsample_binary(upsample_counts_to_binary(c, U), U) = c,
\* element for element.
C11_RoundTrip ==
    (/\ call.op = "downsample_binary"
     /\ \A i \in 1..Len(call.counts) : call.counts[i] <= call.factor * One)
        => call.out = call.counts

C11_Witness ==
    /\ call.op = "downsample_binary"
    /\ call.factor >= 2
    /\ Len(call.counts) >= 2
    /\ \E i \in 1..Len(call.counts) : call.counts[i] = call.factor * One
    /\ \E i \in 1..Len(call.counts) :
          call.counts[i] > 0 /\ call.counts[i] < call.factor * One
    /\ \A i \in 1..Len(call.counts) : call.counts[i] <= call.factor * One
    /\ call.out = call.counts

\* C12: upsample_counts_to_binary(counts, U) has length len(counts) * U and
\* entries 0 or 1; in every block of U bins exactly the first min(C, U) are 1,
\* so the number of ones is the sum of min(C_i, U), and is the total count
\* when no count exceeds U.
C12_CountsToBinary ==
    call.op = "upsample_counts_to_binary" =>
        /\ Len(call.out) = Len(call.counts) * call.factor
        /\ \A p \in 1..Len(call.out) : call.out[p] \in {0, One}
        /\ \A i \in 1..Len(call.counts) : \A j \in 0..(call.factor - 1) :
              (call.out[(i - 1) * call.factor + j + 1] = One)
                  <=> (j * One < Min(call.counts[i], call.factor * One))
        /\ SumSeq(call.out)
              = SumSeq([i \in 1..Len(call.counts) |->
                          Min(call.counts[i], call.factor * One)])
        /\ (\A i \in 1..Len(call.counts) : call.counts[i] <= call.factor * One)
              => SumSeq(call.out) = SumSeq(call.counts)

C12_Witness ==
    /\ call.op = "upsample_counts_to_binary"
    /\ call.factor >= 2
    /\ Len(call.counts) >= 2
    /\ call.counts[1] > call.factor * One
    /\ call.counts[2] = One
    /\ \A j \in 1..call.factor : call.out[j] = One
    /\ call.out[call.factor + 1] = One
    /\ call.out[call.factor + 2] = 0

\* C13: for every trace, window w >= 1 and quantile q in [0, 1] the output of
\* subtract_rolling_baseline at t is trace[t] minus the element of rank
\* k = min(floor((w_t - 1) * q + 0.5), w_t - 1), w_t = min(t + 1, w), among the
\* original values trace[max(0, t - w + 1) ..= t].
C13_BaselineIsOrderStatistic ==
    LET \* the 0-based positions of the window that ends at t (0-based)
        Window(t) == {j \in 0..t : j > t - call.window}
        \* floor(x + 0.5) of x = (w_t - 1) * q
        RankOf(w_t) ==
            Min(((2 * (w_t - 1) * call.q[1]) + call.q[2]) \div (2 * call.q[2]),
                w_t - 1)
        \* v has rank k among the values at the positions W
        HasRank(v, k, W) ==
            /\ Cardinality({j \in W : call.trace[j + 1] < v}) <= k
            /\ k < Cardinality({j \in W : call.trace[j + 1] <= v})
    IN (call.op = "subtract_rolling_baseline" /\ call.window >= 1) =>
          /\ Len(call.out) = Len(call.trace)
          /\ \A t \in 0..(Len(call.trace) - 1) :
                HasRank(call.trace[t + 1] - call.out[t + 1],
                        RankOf(Cardinality(Window(t))), Window(t))

C13_Witness ==
    /\ call.op = "subtract_rolling_baseline"
    /\ call.window = 2
    /\ Len(call.trace) = 3
    /\ call.q = <<1, 2>>
    /\ call.trace[1] > call.trace[2]
    /\ call.trace[3] > call.trace[1]
    /\ call.out = <<0, call.trace[2] - call.trace[1], 0>>

\* C14 as stated: lstsq_alpha_baseline returns alpha >= 0 for every conv, y
\* and padding, and whenever the unconstrained alpha is negative or the normal
\* equations are singular it returns alpha = 0 with b = mean(y), the mean of y.
C14_MeanOfWholeTrace ==
    LET c == Inner(call.conv, call.pad)
        v == Inner(call.y, call.pad)
        det == SumSeq([i \in 1..Len(c) |-> c[i] * c[i]]) * Len(c)
               - SumSeq(c) * SumSeq(c)
        num == SumSeq([i \in 1..Len(c) |-> c[i] * v[i]]) * Len(c)
               - SumSeq(c) * SumSeq(v)
    IN (call.op = "lstsq_alpha_baseline" /\ Len(call.y) > 0) =>
          /\ call.out[1] >= 0
          /\ (det = 0 \/ num < 0) =>
                call.out = <<0, Rnd(SumSeq(call.y), Len(call.y))>>

\* C14: lstsq_alpha_baseline returns alpha >= 0 for every conv, y and padding;
\* over a non-empty inner region [pad, n - pad), whenever the unconstrained
\* alpha is negative or the normal equations are singular it returns alpha = 0
\* with b the mean of y over that region; over an empty one it returns (0, 0).
C14_AlphaNonNegative ==
    LET c == Inner(call.conv, call.pad)
        v == Inner(call.y, call.pad)
        det == SumSeq([i \in 1..Len(c) |-> c[i] * c[i]]) * Len(c)
               - SumSeq(c) * SumSeq(c)
        num == SumSeq([i \in 1..Len(c) |-> c[i] * v[i]]) * Len(c)
               - SumSeq(c) * SumSeq(v)
    IN call.op = "lstsq_alpha_baseline" =>
          /\ call.out[1] >= 0
          /\ (Len(v) > 0 /\ (det = 0 \/ num < 0)) =>
                call.out = <<0, Rnd(SumSeq(v), Len(v))>>
          /\ Len(v) = 0 => call.out = <<0, 0>>

C14_Witness ==
    /\ call.op = "lstsq_alpha_baseline"
    /\ call.pad = 0
    /\ call.conv = <<0, 2 * One, 0>>
    /\ call.y = <<2 * One, 0 - One, 2 * One>>
    /\ call.out = <<0, One>>

\* C15: for every kernel h_free and rate fs the residual that
\* fit_biexponential returns with refine = true is <= the residual it returns
\* with refine = false on the same input.
C15_RefinementNeverWorse ==
    (call.op = "fit_biexponential" /\ call.refine) =>
        call.refined.residual <= call.coarse.residual

C15_Witness ==
    /\ call.op = "fit_biexponential"
    /\ call.refine
    /\ Len(call.h_free) = MaxT
    /\ call.coarse.residual < Infinity
    /\ call.refined.residual < call.coarse.residual
    /\ call.refined.tau_rise # call.coarse.tau_rise

\* C16: for every input, the empty kernel included, with or without
\* refinement, the result of fit_biexponential has tau_decay > tau_rise.
C16_DecayAboveRise ==
    call.op = "fit_biexponential" =>
        /\ call.coarse.tau_decay > call.coarse.tau_rise
        /\ call.refine => call.refined.tau_decay > call.refined.tau_rise

C16_Witness ==
    /\ call.op = "fit_biexponential"
    /\ call.refine
    /\ call.coarse.residual < Infinity
    /\ call.refined.tau_rise > call.coarse.tau_rise
    /\ call.refined.tau_decay < call.coarse.tau_decay
    /\ call.refined.tau_decay > call.refined.tau_rise
    /\ 2 * call.refined.tau_rise > call.refined.tau_decay

\* C17: estimate_free_kernel returns a kernel of length exactly K whose
\* entries are all >= 0, for every valid input, warm start and iteration
\* limit; when K = 0 or the total trace length is 0 it returns K zeros.
C17_KernelNonNegative ==
    (call.op = "estimate_free_kernel" /\ ~call.out.panic) =>
        /\ Len(call.out.h) = call.kernel_length
        /\ \A k \in 1..Len(call.out.h) : call.out.h[k] >= 0
        /\ (call.kernel_length = 0 \/ SumSeq(call.trace_lengths) = 0)
              => call.out.h = Zeros(call.kernel_length)

\* C18: convolve_adjoint is the transpose of convolve_forward: for every
\* length T (1 and 2 included) and all vectors x, y of length T, <K x, y>
\* equals <x, K^T y> up to the rounding of the recursion (on the grid: at most
\* T grid units on each of the T samples, against entries of size up to 2).
C18_AdjointIdentity ==
    call.op = "adjoint_identity" =>
        /\ Len(call.kx) = Len(call.x)
        /\ Len(call.kty) = Len(call.y)
        /\ Abs(call.lhs - call.rhs) <= Len(call.x) * Len(call.x) * 2 * One

C18_Witness ==
    /\ call.op = "adjoint_identity"
    /\ call.u = 1
    /\ call.x = <<2 * One, 0>>
    /\ call.y = <<0, 2 * One>>
    /\ call.kx = <<2 * One, MulFx(BandedAR2_new(1).g1, 2 * One)>>
    /\ call.kty = <<call.kx[2], call.kx[1]>>
    /\ call.lhs = call.rhs
    /\ call.lhs > 0

\* C19: no call of estimate_free_kernel panics, whatever the lengths of its
\* arrays: it returns a value.
C19_NoPanic ==
    call.op = "estimate_free_kernel" => ~call.out.panic

\* C20: the converged flag of a non-empty trace is set only by the
\* convergence test at the end of an iteration whose counter (after the
\* increment) exceeds 5 and whose squared step satisfies
\* ||x_new - x_old||^2 < tol^2 (||x_old||^2 + eps): from a freshly loaded
\* trace converged implies iteration_count >= 6, and step_batch never clears
\* the flag once it is set.
C20_ConvergedOnlyByTest ==
    [][LET SqDist(a, b) ==
               SumSeq([i \in 1..Len(a) |-> (a[i] - b[i]) * (a[i] - b[i])])
           SqNorm(a) == SumSeq([i \in 1..Len(a) |-> a[i] * a[i]])
           \* x_old of the last iteration is kept in residual_buf
           LastTestHeld(s) ==
               ConvergenceTest(s.iteration, SqDist(s.solution, s.residual_buf),
                               SqNorm(s.residual_buf), s.tolerance)
       IN /\ (solver'.active_len > 0 /\ solver'.converged) => solver'.iteration >= 6
          /\ call'.op = "step_batch" =>
                /\ solver.converged => (solver'.converged /\ solver' = solver)
                /\ (solver'.active_len > 0 /\ ~solver.converged /\ solver'.converged)
                      => (solver'.iteration > 5 /\ LastTestHeld(solver'))
                /\ (solver'.active_len > 0 /\ ~solver'.converged
                    /\ solver'.iteration > solver.iteration)
                      => ~LastTestHeld(solver')]_vars

C20_Witness ==
    /\ call.op = "step_batch"
    /\ solver.active_len > 0
    /\ solver.converged
    /\ solver.iteration = 6
    /\ solver.solution # Zeros(solver.active_len)

\* C21: adaptive restart: on every FISTA iteration, if
\* d = <y_ext_prev - x_new, x_new - x_old> is > 0 then after the iteration
\* t is 1 and y_ext equals x_new; otherwise t is (1 + sqrt(1 + 4 t_k^2)) / 2
\* and y_ext is the constrained extrapolation x_new + m (x_new - x_old).
C21_AdaptiveRestart ==
    [][(call'.op = "step_batch" /\ solver'.iteration = solver.iteration + 1) =>
         LET n == solver.active_len
             x_old == solver.solution
             x_new == solver'.solution
             d == SumSeq([i \in 1..n |->
                            (solver.solution_prev[i] - x_new[i]) * (x_new[i] - x_old[i])])
             t_new == (One + ISqrt(One * One + 4 * solver.t_fista * solver.t_fista)) \div 2
             m == DivFx(solver.t_fista - One, t_new)
         IN IF d > 0
            THEN /\ solver'.t_fista = One
                 /\ solver'.solution_prev = x_new
            ELSE /\ solver'.t_fista = t_new
                 /\ \A i \in 1..n :
                       solver'.solution_prev[i] =
                           LET e == x_new[i] + MulFx(m, x_new[i] - x_old[i])
                           IN IF solver.constraint = "NonNegative" THEN Max(e, 0)
                              ELSE Clamp(e, 0, One)]_vars

C21_Witness ==
    /\ call.op = "step_batch"
    /\ solver.iteration >= 2
    /\ solver.t_fista = One
    /\ solver.solution_prev = solver.solution
    /\ solver.solution # solver.residual_buf

\* C22: with the externally-filtered / baseline-subtracted flag set,
\* step_batch never modifies the baseline b nor the EMA display baseline:
\* both keep their values for any number of iterations, and the residual is
\* formed with that unchanged b.
C22_BaselineFrozen ==
    [][(call'.op = "step_batch" /\ solver.filtered) =>
         /\ solver'.filtered
         /\ solver'.baseline = solver.baseline
         /\ solver'.baseline_ema = solver.baseline_ema
         /\ solver'.baseline_ema_init = solver.baseline_ema_init
         /\ solver'.iteration = solver.iteration + 1 =>
               solver'.gradient =
                   convolve_adjoint(solver,
                       [i \in 1..solver.active_len |->
                          solver'.reconvolution[i] + solver.baseline - solver.trace[i]])]_vars

C22_Witness ==
    /\ call.op = "step_batch"
    /\ solver.filtered
    /\ solver.iteration >= 2
    /\ solver.baseline = 0
    /\ ~solver.baseline_ema_init
    /\ SumSeq([i \in 1..solver.active_len |->
                 solver.trace[i] - solver.reconvolution[i]]) >= solver.active_len

\* C23: with HP or LP filtering enabled, the pre-pass that solve_trace runs
\* to obtain the filtered trace executes exactly one FISTA iteration: the
\* solver's iteration count after the pre-pass is 1.
C23_PrepassOneIteration ==
    (pipe.pc \in {"scale", "extract", "done"} /\ (pipe.hp \/ pipe.lp)) =>
        /\ pipe.prepass # <<>>
        /\ pipe.prepass[1] = 1

\* C24: in threshold_search each sweep (coarse, then fine) evaluates its
\* thresholds in increasing order and stops as soon as 10 consecutive
\* evaluations fail to strictly lower the best error; the counter resets to 0
\* on every improvement and at the start of the fine sweep, the best error
\* never increases, and the returned threshold is the first evaluated
\* threshold that attained the minimum error over all evaluated thresholds.
C24_SweepEarlyExit ==
    call.op = "threshold_search" =>
        LET ev == call.evaluated
            Of(sweep) == {i \in 1..Len(ev) : ev[i].sweep = sweep}
            LeastBefore(i) ==
                IF i = 1 THEN Infinity
                ELSE CHOOSE e \in {ev[j].err : j \in 1..(i - 1)} :
                        \A j \in 1..(i - 1) : e <= ev[j].err
            Follows(i) == i > 1 /\ ev[i - 1].sweep = ev[i].sweep
            Last(i) == i = Len(ev) \/ ev[i + 1].sweep # ev[i].sweep
            \* a finished sweep hit the limit or ran through all its thresholds
            Finished(sweep, ths) ==
                \/ \E i \in Of(sweep) : ev[i].consecutive_increases = 10
                \/ Cardinality(Of(sweep)) = Len(ths)
            Least == LeastBefore(Len(ev) + 1)
        IN /\ \A i \in 1..Len(ev) :
                /\ Follows(i) => ev[i - 1].thresh < ev[i].thresh
                /\ ev[i].consecutive_increases =
                       IF ev[i].err < LeastBefore(i) THEN 0
                       ELSE IF Follows(i) THEN ev[i - 1].consecutive_increases + 1
                       ELSE 1
                /\ ev[i].consecutive_increases <= 10
                /\ ev[i].consecutive_increases = 10 => Last(i)
                /\ ev[i].best_error <= LeastBefore(i)
                /\ ev[i].best_error <= ev[i].err
           /\ \A i \in Of("coarse") :
                 ev[i].thresh = call.coarse_thresholds[i]
           /\ \A i \in Of("fine") :
                 ev[i].thresh = call.fine_thresholds[i - Cardinality(Of("coarse"))]
           /\ call.pc \in {"fine", "done"} /\ call.vals # <<>>
                 => Finished("coarse", call.coarse_thresholds)
           /\ call.pc = "done" /\ call.vals # <<>>
                 => /\ Finished("fine", call.fine_thresholds)
                    /\ call.out[1].error = Least
                    /\ \E i \in 1..Len(ev) :
                          /\ ev[i].err = Least
                          /\ \A j \in 1..(i - 1) : ev[j].err > Least
                          /\ call.out[1].threshold = ev[i].thresh

C24_Witness ==
    /\ call.op = "threshold_search"
    /\ call.pc = "done"
    /\ \E i \in 1..Len(call.evaluated) :
          /\ call.evaluated[i].sweep = "coarse"
          /\ call.evaluated[i].consecutive_increases = 10
          /\ i < Len(call.coarse_thresholds)
    /\ \E i \in 2..Len(call.evaluated) :
          /\ call.evaluated[i].sweep = "coarse"
          /\ call.evaluated[i].consecutive_increases = 0
    /\ call.evaluated[Len(call.evaluated)].sweep = "fine"
    /\ call.evaluated[Len(call.evaluated)].consecutive_increases = 10
    /\ call.evaluated[Len(call.evaluated)].thresh
          < call.fine_thresholds[Len(call.fine_thresholds)]

\* C25: the fine sweep of threshold_search covers 50 uniformly spaced
\* thresholds in [max(0, theta* - D), theta* + D] with half-width
\* D = (V_max - V_min) / 25, for every set V of distinct positive values of
\* the relaxed solution, sets with fewer than 50 values included.
C25_FineHalfWidth ==
    (call.op = "threshold_search" /\ call.pc \in {"fine", "done"} /\ call.vals # <<>>) =>
        LET D == Rnd(ThScale * (call.vals[Len(call.vals)] - call.vals[1]), 25)
            lo == Max(call.coarse_best - D, 0)
            hi == call.coarse_best + D
        IN /\ Len(call.fine_thresholds) = 50
           /\ \A k \in 1..Len(call.fine_thresholds) :
                 call.fine_thresholds[k] = lo + Rnd((k - 1) * (hi - lo), 49)

\* C26: the FISTA loop of estimate_free_kernel uses the convergence
\* criterion of Solver::step_batch: it stops at the end of its k-th executed
\* iteration (k counted from 1) exactly when k > 5 and
\* ||h_new - h_old||^2 < tol^2 (||h_old||^2 + eps), so the earliest iteration
\* at which either loop can stop is the 6th.
C26_SameCriterion ==
    (call.op = "estimate_free_kernel" /\ ~call.out.panic) =>
        /\ Len(call.out.steps) = call.out.iterations
        /\ \A k \in 1..call.out.iterations :
              (call.out.broke /\ k = call.out.iterations)
                 <=> ConvergenceTest(k, call.out.steps[k].diff_sq,
                                     call.out.steps[k].h_sq, call.tol)

\* C27: a trace with |alpha_i| < 1e-20 does not influence the estimated
\* kernel: the result equals the result on the input with that trace (its
\* samples, spike train, alpha, baseline and length) removed, whatever spikes
\* it contains.
C27_SkippedTraceNoInfluence ==
    call.op = "estimate_free_kernel_without" => call.out.h = call.with.h

\* C28: in solve_trace the caller's warm counts are the FISTA starting point
\* only in scale round 0 (x and y_ext both set to the upsampled binary train,
\* and only when its length equals the upsampled trace length); every later
\* round, and round 0 without a usable warm start, starts from the all-zero
\* solution with iteration count 0.
C28_WarmOnlyRoundZero ==
    pipe.pc \in {"scale", "extract", "done"} =>
        \A k \in 1..Len(pipe.rounds) :
            LET n == Len(pipe.working_trace)
                usable == /\ k = 1
                          /\ pipe.warm_binary # <<>>
                          /\ Len(pipe.warm_binary[1]) = n
                start == pipe.rounds[k].start
            IN /\ pipe.rounds[k].round = k - 1
               /\ start.iteration = 0
               /\ start.solution = IF usable THEN pipe.warm_binary[1] ELSE Zeros(n)
               /\ start.solution_prev = start.solution

C28_Witness ==
    /\ pipe.pc = "done"
    /\ Len(pipe.rounds) >= 2
    /\ pipe.warm_binary # <<>>
    /\ pipe.max_iters > 0
    /\ pipe.rounds[1].start.solution = pipe.warm_binary[1]
    /\ pipe.rounds[1].start.solution # Zeros(Len(pipe.working_trace))
    /\ pipe.rounds[2].start.solution = Zeros(Len(pipe.working_trace))
    /\ pipe.rounds[2].iterations > 0

\* C29: batching is transparent: step_batch(a) followed by step_batch(b)
\* leaves the same state (solution, y_ext, momentum t, baseline, iteration
\* count, converged flag) and the same final return value as a single
\* step_batch(a + b), for all a, b >= 0.
C29_BatchingTransparent ==
    call.op = "split_batch" =>
        /\ twin.solution = solver.solution
        /\ twin.solution_prev = solver.solution_prev
        /\ twin.t_fista = solver.t_fista
        /\ twin.baseline = solver.baseline
        /\ twin.baseline_ema = solver.baseline_ema
        /\ twin.iteration = solver.iteration
        /\ twin.converged = solver.converged
        /\ call.ret_split = call.ret

C29_Witness ==
    /\ call.op = "split_batch"
    /\ call.a >= 1
    /\ call.b >= 1
    /\ solver.iteration >= 3
    /\ solver.t_fista > One
    /\ solver.solution # Zeros(solver.active_len)
    /\ solver.solution_prev # solver.solution
    /\ twin.solution_prev = solver.solution_prev

\* C30: once the converged flag is true, every further step_batch(n) returns
\* true and changes nothing: the solution, y_ext, the momentum scalar, the
\* baseline, the reconvolution buffer and the iteration count are as before,
\* for every n >= 0.
C30_ConvergedNoOp ==
    [][(call'.op = "step_batch" /\ solver.converged) =>
          /\ call'.ret
          /\ solver'.converged
          /\ solver'.solution = solver.solution
          /\ solver'.solution_prev = solver.solution_prev
          /\ solver'.t_fista = solver.t_fista
          /\ solver'.baseline = solver.baseline
          /\ solver'.baseline_ema = solver.baseline_ema
          /\ solver'.reconvolution = solver.reconvolution
          /\ solver'.iteration = solver.iteration
          /\ solver' = solver]_vars

C30_Witness ==
    /\ call.op = "step_batch"
    /\ call.was_converged
    /\ call.n >= 1
    /\ call.ret
    /\ solver.converged
    /\ solver.active_len > 0
    /\ solver.iteration >= 6
    /\ solver.iteration + call.n <= MaxIter
    /\ solver.solution # Zeros(solver.active_len)
    /\ solver.reconvolution # Zeros(solver.active_len)
    /\ solver.t_fista > One
=============================================================================
